---- MODULE Spec2Model ----
(***************************************************************************)
(* QueryTranslator: SQLConverter.translate and the TableParser it drives.  *)
(* Text is modelled character by character: a string is a sequence of     *)
(* one-character strings, and every regular expression of the source is    *)
(* an operator that computes what the expression matches.                  *)
(***************************************************************************)
EXTENDS Integers, Sequences, FiniteSets, TLC

(***************************************************************************)
(* Characters and the JavaScript string primitives the source uses.        *)
(***************************************************************************)

\* A string literal as a sequence of characters.
Str(s) == [i \in 1..Len(s) |-> SubSeq(s, i, i)]

\* The backquote has no TLA+ string literal; this element stands for it.
BT == "BT"

UpperChars == Str("ABCDEFGHIJKLMNOPQRSTUVWXYZ")
LowerChars == Str("abcdefghijklmnopqrstuvwxyz")
UpperSet == {UpperChars[i] : i \in 1..26}
LowerSet == {LowerChars[i] : i \in 1..26}
DigitSet == {"0", "1", "2", "3", "4", "5", "6", "7", "8", "9"}

\* \w of the regular expressions
WordSet == UpperSet \cup LowerSet \cup DigitSet \cup {"_"}
\* \s of the regular expressions, and what String.prototype.trim removes
SpaceSet == {" ", "\t", "\n", "\r"}
\* what . does not match
LineEndSet == {"\n", "\r"}

LowerOf == [c \in UpperSet |-> LowerChars[CHOOSE i \in 1..26 : UpperChars[i] = c]]
UpperOf == [c \in LowerSet |-> UpperChars[CHOOSE i \in 1..26 : LowerChars[i] = c]]

toLowerChar(c) == IF c \in UpperSet THEN LowerOf[c] ELSE c
toUpperChar(c) == IF c \in LowerSet THEN UpperOf[c] ELSE c
toLowerCase(s) == [i \in 1..Len(s) |-> toLowerChar(s[i])]
toUpperCase(s) == [i \in 1..Len(s) |-> toUpperChar(s[i])]

Min(S) == CHOOSE x \in S : \A y \in S : x <= y
Max(S) == CHOOSE x \in S : \A y \in S : x >= y

\* F(p) at the least position p in a..b where it is not none, else none; the
\* interval is halved, so that F is computed once for a position, and for no
\* position after the one found
RECURSIVE FirstValue(_, _, _, _)
FirstValue(a, b, F(_), none) ==
    LET orLater(left, m) == IF left # none THEN left ELSE FirstValue(m + 1, b, F, none)
        halves(m) == orLater(FirstValue(a, m, F, none), m)
    IN  IF a > b THEN none
        ELSE IF a = b THEN F(a)
        ELSE halves((a + b) \div 2)

\* the least position in a..b that satisfies P, 0 when there is none
First(a, b, P(_)) == FirstValue(a, b, LAMBDA j : IF P(j) THEN j ELSE 0, 0)

\* lit occurs in s at position i (1-based), letter case respected
MatchAt(s, i, lit) ==
    /\ i >= 1
    /\ i + Len(lit) - 1 <= Len(s)
    /\ \A k \in 1..Len(lit) : s[i + k - 1] = lit[k]

\* the same under the i flag; lit is given in lower case
MatchAtCI(s, i, lit) ==
    /\ i >= 1
    /\ i + Len(lit) - 1 <= Len(s)
    /\ \A k \in 1..Len(lit) : toLowerChar(s[i + k - 1]) = lit[k]

\* String.prototype.indexOf as a 1-based position; 0 stands for -1
indexOf(s, lit) ==
    First(1, Len(s) - Len(lit) + 1, LAMBDA p : MatchAt(s, p, lit))

includes(s, lit) == \E i \in 1..(Len(s) - Len(lit) + 1) : MatchAt(s, i, lit)
startsWith(s, lit) == MatchAt(s, 1, lit)
endsWith(s, lit) == MatchAt(s, Len(s) - Len(lit) + 1, lit)

\* String.prototype.substring(start) and substring(0, end) with 0-based
\* arguments as in the source; a negative argument counts as 0
substringFrom(s, start) ==
    LET b == IF start < 0 THEN 0 ELSE start
    IN  IF b >= Len(s) THEN <<>> ELSE SubSeq(s, b + 1, Len(s))
substringTo(s, end) ==
    LET e == IF end < 0 THEN 0 ELSE IF end > Len(s) THEN Len(s) ELSE end
    IN  SubSeq(s, 1, e)

\* The scans below look for the first position rather than recursing over
\* the characters, which keeps them shallow.
Indices(s) == [i \in 1..Len(s) |-> i]

\* a position found from i on, or the end of s: Len(s) + 1, or i beyond it
OrEnd(s, i, j) == IF j # 0 THEN j ELSE IF i > Len(s) THEN i ELSE Len(s) + 1

\* first position >= i that holds no white space (Len(s) + 1 when none)
SkipSpace(s, i) == OrEnd(s, i, First(i, Len(s), LAMBDA j : s[j] \notin SpaceSet))

\* first position >= i that holds no word character
SkipWord(s, i) == OrEnd(s, i, First(i, Len(s), LAMBDA j : s[j] \notin WordSet))

\* first position >= i that . does not match: the end of the line
SkipLine(s, i) == OrEnd(s, i, First(i, Len(s), LAMBDA j : s[j] \in LineEndSet))

\* last position <= i that holds no white space (0 when none)
SkipSpaceBack(s, i) ==
    LET back(k) == IF k = 0 THEN 0 ELSE i - k + 1
    IN  back(First(1, i, LAMBDA k : s[i - k + 1] \notin SpaceSet))

trim(s) ==
    LET b == SkipSpace(s, 1)
        e == SkipSpaceBack(s, Len(s))
    IN  IF b > e THEN <<>> ELSE SubSeq(s, b, e)

\* Replace the matches given as spans <<first, last>>, ordered and disjoint,
\* by rep: String.prototype.replace with a constant replacement.
RECURSIVE ReplaceSpans(_, _, _, _)
ReplaceSpans(s, spans, rep, from) ==
    IF spans = <<>> THEN SubSeq(s, from, Len(s))
    ELSE SubSeq(s, from, Head(spans)[1] - 1) \o rep
         \o ReplaceSpans(s, Tail(spans), rep, Head(spans)[2] + 1)

\* The successive matches of a global search for a literal: every
\* occurrence that starts after the end of the match before it.
RECURSIVE DisjointSpans(_, _, _, _)
DisjointSpans(pos, k, len, from) ==
    IF k > Len(pos) THEN <<>>
    ELSE IF pos[k] < from THEN DisjointSpans(pos, k + 1, len, from)
    ELSE <<(<<pos[k], pos[k] + len - 1>>)>>
         \o DisjointSpans(pos, k + 1, len, pos[k] + len)

LiteralSpans(s, lit, ci) ==
    LET hit(i) == IF ci THEN MatchAtCI(s, i, lit) ELSE MatchAt(s, i, lit)
    IN  DisjointSpans(SelectSeq(Indices(s), hit), 1, Len(lit), 1)

\* s.replace(/lit/g, rep)
replaceGlobal(s, lit, rep) ==
    LET spans == LiteralSpans(s, lit, FALSE)
    IN  IF spans = <<>> THEN s ELSE ReplaceSpans(s, spans, rep, 1)

\* s.split(sep)
RECURSIVE SplitFrom(_, _, _)
SplitFrom(s, sep, from) ==
    LET parts(p) == IF p = 0 THEN <<SubSeq(s, from, Len(s))>>
                    ELSE <<SubSeq(s, from, p - 1)>> \o SplitFrom(s, sep, p + Len(sep))
    IN  parts(First(from, Len(s) - Len(sep) + 1, LAMBDA p : MatchAt(s, p, sep)))
split(s, sep) == SplitFrom(s, sep, 1)

RECURSIVE join(_, _)
join(parts, sep) ==
    IF parts = <<>> THEN <<>>
    ELSE IF Len(parts) = 1 THEN parts[1]
    ELSE parts[1] \o sep \o join(Tail(parts), sep)

(***************************************************************************)
(* TableParser.parseSQL: the statement splitter.                           *)
(***************************************************************************)

\* An array with holes: a function on the indices that were assigned.
Put(arr, k, v) == (k :> v) @@ arr
NoArray == <<>>

\* the locals of parseSQL before the scan (lines 386..392); positions are
\* 0-based as in the source, so nquery starts at -1
ScanInit ==
    [append |-> 0, skip |-> 0, start |-> 1, nquery |-> -1,
     delimiter |-> Str(";"), queryArray |-> NoArray, delimiterArray |-> NoArray]

\* lines 375..385: the trimmed lines that are neither empty nor comments
ScriptLines(sql) ==
    LET n1 == replaceGlobal(sql, Str("\n"), Str("\r\n"))
        n2 == replaceGlobal(n1, Str("\r\r\n"), Str("\r\n"))
        arr == split(n2, Str("\r\n"))
        trimmed == [i \in 1..Len(arr) |-> trim(arr[i])]
        keep(val) == ~startsWith(val, Str("-- ")) /\ val # Str("--") /\ val # <<>>
    IN  SelectSeq(trimmed, keep)

\* lines 395..399: an empty line while a statement is being appended
ScanBlank(st, text) ==
    IF text = <<>> /\ st.append = 1
    THEN [st EXCEPT !.queryArray =
              Put(@, st.nquery, @[st.nquery] \o Str("\r\n"))]
    ELSE st

\* lines 401..410: a line starting with -- at a statement start is skipped
ScanComment(st, text) ==
    IF st.append = 0
    THEN IF startsWith(trim(text), Str("--"))
         THEN [st EXCEPT !.skip = 1, !.nquery = @ + 1, !.start = 1, !.append = 0]
         ELSE [st EXCEPT !.skip = 0]
    ELSE st

\* lines 413..418: a new statement is opened
ScanOpen(st) ==
    IF st.start = 1
    THEN [st EXCEPT !.nquery = @ + 1,
                    !.queryArray = Put(@, st.nquery + 1, <<>>),
                    !.delimiterArray = Put(@, st.nquery + 1, st.delimiter),
                    !.start = 0]
    ELSE st

\* line 425: the test that closes a statement
ClosesStatement(text, delimiter) ==
    \/ includes(substringFrom(text, Len(text) - Len(delimiter) - 1), delimiter)
    \/ text = delimiter

\* lines 420..434: the line is appended and the statement closed or not
ScanAppend(st, text0) ==
    LET text == trim(text0)
        s1 == [st EXCEPT !.queryArray =
                   Put(@, st.nquery, @[st.nquery] \o text0 \o Str("\r\n")),
                         !.delimiterArray = Put(@, st.nquery, st.delimiter)]
        s2 == IF ClosesStatement(text, st.delimiter)
              THEN [s1 EXCEPT !.nquery = @ + 1, !.start = 1, !.append = 0]
              ELSE [s1 EXCEPT !.start = 0, !.append = 1]
    IN  [s2 EXCEPT !.delimiterArray = Put(@, s2.nquery, st.delimiter)]

\* text.replace(/\s+/g, " ") of line 437, then split(" ")[1]
DelimiterToken(text) ==
    LET until(j) == IF j = 0 THEN Len(text) ELSE j - 1
        token(b) ==
            SubSeq(text, b, until(First(b, Len(text), LAMBDA j : text[j] \in SpaceSet)))
    IN  token(SkipSpace(text, SkipWord(text, 1)))

\* lines 436..444: a DELIMITER directive
ScanDirective(st, text0) ==
    LET text == trim(text0)
    IN  IF startsWith(toLowerCase(text), Str("delimiter "))
        THEN [st EXCEPT !.delimiter = DelimiterToken(text),
                        !.nquery = @ + 1,
                        !.delimiterArray = Put(@, st.nquery + 1, DelimiterToken(text)),
                        !.start = 1, !.append = 0]
        ELSE st

\* lines 394..446: the body of arr.forEach for one line
ScanLine(st, text) ==
    LET a == ScanComment(ScanBlank(st, text), text)
    IN  IF a.skip = 0
        THEN ScanDirective(ScanAppend(ScanOpen(a), text), text)
        ELSE a

RECURSIVE ScanLines(_, _, _)
ScanLines(st, arr, i) ==
    IF i > Len(arr) THEN st ELSE ScanLines(ScanLine(st, arr[i]), arr, i + 1)

\* lines 448..456: the statements that are no directive, trimmed and with
\* as many characters cut from the end as the delimiter is long
RECURSIVE CollectQueries(_, _)
CollectQueries(st, line) ==
    IF line > st.nquery THEN <<>>
    ELSE IF line \in DOMAIN st.queryArray
            /\ ~startsWith(toLowerCase(st.queryArray[line]), Str("delimiter "))
         THEN LET sql == trim(st.queryArray[line])
                  delimiter == st.delimiterArray[line]
              IN  <<[query |-> substringTo(sql, Len(sql) - Len(delimiter)),
                     delimiter |-> delimiter]>> \o CollectQueries(st, line + 1)
         ELSE CollectQueries(st, line + 1)

parseSQL(sql) == CollectQueries(ScanLines(ScanInit, ScriptLines(sql), 1), 0)

(***************************************************************************)
(* TableParser.formatSQL: one fragment per line.                           *)
(***************************************************************************)

\* The position after words[k..] matched at p under the i flag, the words
\* separated by \s+; 0 when they do not match there.
RECURSIVE MatchWords(_, _, _, _)
MatchWords(s, p, words, k) ==
    IF ~MatchAtCI(s, p, words[k]) THEN 0
    ELSE LET e == p + Len(words[k])
         IN  IF k = Len(words) THEN e
             ELSE IF SkipSpace(s, e) = e THEN 0
             ELSE MatchWords(s, SkipSpace(s, e), words, k + 1)

\* \b before position p
WordBoundaryBefore(s, p) == p = 1 \/ s[p - 1] \notin WordSet

\* first position of the white space that ends right before position q
SpaceRunStart(s, q) == SkipSpaceBack(s, q - 1) + 1

\* s.replace(re, rep) for a match given as a span; <<>> when re did not match
ReplaceFirst(s, span, rep) ==
    IF span = <<>> THEN s
    ELSE SubSeq(s, 1, span[1] - 1) \o rep \o SubSeq(s, span[2] + 1, Len(s))


\* The leftmost match of an expression in a text of length n, where At(p) is
\* what the expression matches at position p, <<>> when it does not match.
FirstSpan(n, At(_)) ==
    FirstValue(1, n, At, <<>>)

\* line 335: /\s+/g replaced by one blank
CollapseSpace(s) ==
    LET keep(i) == ~(s[i] \in SpaceSet /\ i > 1 /\ s[i - 1] \in SpaceSet)
        idx == SelectSeq(Indices(s), keep)
    IN  [k \in 1..Len(idx) |-> IF s[idx[k]] \in SpaceSet THEN " " ELSE s[idx[k]]]

\* the first match of /\b<words>\s+/i: words separated and followed by \s+
KeywordSpan(s, words) ==
    LET spaced(e) == e # 0 /\ SkipSpace(s, e) > e
        ok(p) == WordBoundaryBefore(s, p) /\ spaced(MatchWords(s, p, words, 1))
        span(p0) == IF p0 = 0 THEN <<>>
                    ELSE <<p0, SkipSpace(s, MatchWords(s, p0, words, 1)) - 1>>
    IN  span(First(1, Len(s), LAMBDA p : ok(p)))

\* the first match of /\s*\(/
OpenParenSpan(s) ==
    LET span(q) == IF q = 0 THEN <<>> ELSE <<SpaceRunStart(s, q), q>>
    IN  span(indexOf(s, <<"(">>))

\* the first match of /\s*\)\s*;/
CloseParenSpan(s) ==
    LET semicolon(t) == t <= Len(s) /\ s[t] = ";"
        ok(q) == s[q] = ")" /\ semicolon(SkipSpace(s, q + 1))
        span(q0) == IF q0 = 0 THEN <<>>
                    ELSE <<SpaceRunStart(s, q0), SkipSpace(s, q0 + 1)>>
    IN  span(First(1, Len(s), LAMBDA q : ok(q)))

\* the first match of /\(\s*/
AfterOpenParenSpan(s) ==
    LET span(q) == IF q = 0 THEN <<>> ELSE <<q, SkipSpace(s, q + 1) - 1>>
    IN  span(indexOf(s, <<"(">>))

\* the matches of /,\s*/g
CommaSpans(s) ==
    LET isComma(i) == s[i] = ","
        spans(pos) == [k \in 1..Len(pos) |-> <<pos[k], SkipSpace(s, pos[k] + 1) - 1>>]
    IN  spans(SelectSeq(Indices(s), isComma))

\* the first occurrence of a string, as a span
StringSpan(s, lit) ==
    LET span(p) == IF p = 0 THEN <<>> ELSE <<p, p + Len(lit) - 1>>
    IN  span(indexOf(s, lit))

\* the statements of formatSQL, lines 335..356, each on the text the
\* statement before it left
FormatCreateTable(s) ==
    ReplaceFirst(s, KeywordSpan(s, <<Str("create"), Str("table")>>), Str("CREATE TABLE "))
FormatIfNotExists(s) ==
    ReplaceFirst(s, KeywordSpan(s, <<Str("if"), Str("not"), Str("exists")>>),
                 Str("IF NOT EXISTS "))
FormatOpenParen(s) == ReplaceFirst(s, OpenParenSpan(s), Str(" ("))
FormatCloseParen(s) == ReplaceFirst(s, CloseParenSpan(s), Str("\r\n);"))
FormatFirstColumn(s) == ReplaceFirst(s, AfterOpenParenSpan(s), Str("(\n\t"))
FormatCommas(s) == ReplaceSpans(s, CommaSpans(s), Str(",\n\t"), 1)
FormatNewLine(s) ==
    ReplaceFirst(s, StringSpan(s, Str("CREATE TABLE")), Str("\nCREATE TABLE"))

formatSQL(sql) ==
    FormatNewLine(FormatCommas(FormatFirstColumn(FormatCloseParen(
        FormatOpenParen(FormatIfNotExists(FormatCreateTable(CollapseSpace(sql))))))))

(***************************************************************************)
(* TableParser: the helpers of parseTable.                                 *)
(***************************************************************************)

\* JavaScript's null and undefined; no string equals either (a string is a
\* sequence of one-character elements).
Null == <<"null">>
Undefined == <<"undefined">>

\* init, line 24
typeList ==
    <<Str("TIMESTAMPTZ"), Str("TIMESTAMP"), Str("SERIAL4"), Str("BIGSERIAL"),
      Str("INT2"), Str("INT4"), Str("INT8"), Str("TINYINT"), Str("BIGINT"),
      Str("LONGTEXT"), Str("MEDIUMTEXT"), Str("TEXT"), Str("NVARCHAR"),
      Str("VARCHAR"), Str("ENUM"), Str("SET"), Str("NUMERIC"), Str("DECIMAL"),
      Str("CHAR"), Str("REAL"), Str("FLOAT"), Str("INTEGER"), Str("INT"),
      Str("DATETIME"), Str("DATE"), Str("DOUBLE"), Str("BOOLEAN"), Str("BOOL"),
      Str("TIME"), Str("UUID"), Str("MONEY"), Str("BLOB"), Str("BIT"),
      Str("JSON")>>

inArray(haystack, needle) == \E i \in 1..Len(haystack) : haystack[i] = needle

isValidType(dataType) == inArray(typeList, toUpperCase(dataType))

\* f.toUpperCase().replace(/\s+/g, ' ').trim() of isPrimaryKey, isAutoIncrement
UpperCollapsed(field) == trim(CollapseSpace(toUpperCase(field)))

isPrimaryKey(field) == includes(UpperCollapsed(field), Str("PRIMARY KEY"))

isAutoIncrement(line) ==
    LET f == UpperCollapsed(line)
    IN  \/ includes(f, Str("AUTO_INCREMENT"))
        \/ includes(f, Str("SERIAL"))
        \/ includes(f, Str("BIGSERIAL"))
        \/ includes(f, Str("NEXTVAL"))

\* The first match of /\((.*)\)/: the first ( that has a ) after it on its
\* line, up to the last ) of that line. The span of the group, <<>> if none.
ParenGroup(text) ==
    LET lastBefore(q, eol) == Max({0} \cup {j \in (q + 1)..(eol - 1) : text[j] = ")"})
        lastClose(q) == lastBefore(q, SkipLine(text, q + 1))
        span(q0) == IF q0 = 0 THEN <<>> ELSE <<q0 + 1, lastClose(q0) - 1>>
    IN  span(First(1, Len(text), LAMBDA q : text[q] = "(" /\ lastClose(q) # 0))

\* the text of a span, none when there is no span
SpanText(text, span, none) ==
    IF span = <<>> THEN none ELSE SubSeq(text, span[1], span[2])

\* getLength, lines 279..286
getLength(text) ==
    IF includes(text, <<"(">>) /\ includes(text, <<")">>)
    THEN SpanText(text, ParenGroup(text), <<>>)
    ELSE <<>>

\* rg_not_null = /not\s+null/i and rg_pk = /primary\s+key/i: the span of the
\* first match of words separated by \s+
WordsSpan(s, words) ==
    LET span(p0) == IF p0 = 0 THEN <<>> ELSE <<p0, MatchWords(s, p0, words, 1) - 1>>
    IN  span(First(1, Len(s), LAMBDA p : MatchWords(s, p, words, 1) # 0))
rg_not_null(s) == WordsSpan(s, <<Str("not"), Str("null")>>)
rg_pk(s) == WordsSpan(s, <<Str("primary"), Str("key")>>)

\* The first match of /<word>\s*\(([^)]+)\)/i, for rg_enum and rg_set: the
\* span of the group, <<>> if none.
ListGroup(s, word) ==
    LET close(open) == First((open + 1), Len(s), LAMBDA j : s[j] = ")")
        group(open) == IF open <= Len(s) /\ s[open] = "(" /\ close(open) > open + 1
                       THEN <<open + 1, close(open) - 1>>
                       ELSE <<>>
        at(p) == IF MatchAtCI(s, p, word) THEN group(SkipSpace(s, p + Len(word)))
                 ELSE <<>>
    IN  FirstValue(1, Len(s), at, <<>>)
rg_enum(s) == ListGroup(s, Str("enum"))
rg_set(s) == ListGroup(s, Str("set"))

\* val.trim().replace(/['"]/g, '') of lines 112 and 116
StripQuotes(val) ==
    LET isNoQuote(c) == c \notin {"'", "\""}
    IN  SelectSeq(trim(val), isNoQuote)

\* lines 110..117
EnumArray(dataTypeRaw) ==
    LET stripped(parts) == [i \in 1..Len(parts) |-> StripQuotes(parts[i])]
        values(span) == stripped(split(SubSeq(dataTypeRaw, span[1], span[2]), <<",">>))
        pick(enum, set) == IF set # <<>> THEN values(set)
                           ELSE IF enum # <<>> THEN values(enum)
                           ELSE Null
    IN  pick(rg_enum(dataTypeRaw), rg_set(dataTypeRaw))

(***************************************************************************)
(* TableParser.fixDefaultValue: the default-value normalizer.              *)
(***************************************************************************)

HexSet == DigitSet \cup {"a", "b", "c", "d", "e", "f", "A", "B", "C", "D", "E", "F"}
AllIn(s, S) == \A i \in 1..Len(s) : s[i] \in S
CountOf(s, c) == Cardinality({i \in 1..Len(s) : s[i] = c})

\* digits with at most one point and at least one digit
IsMantissa(m) ==
    /\ AllIn(m, DigitSet \cup {"."})
    /\ CountOf(m, ".") <= 1
    /\ \E i \in 1..Len(m) : m[i] \in DigitSet

Unsigned(t) == IF t # <<>> /\ t[1] \in {"+", "-"} THEN Tail(t) ELSE t

\* isNumber, lines 268..271: !isNaN(v) && v !== '', that is, Number(v) reads
\* the trimmed text as a numeric literal (the empty text reads as 0)
\* the position of the exponent mark of a decimal literal, 0 if none
ExponentAt(u) == First(1, Len(u), LAMBDA i : u[i] \in {"e", "E"})

\* an unsigned decimal literal whose exponent mark is at ePos
IsDecimal(u, ePos) ==
    IF ePos = 0 THEN IsMantissa(u)
    ELSE /\ IsMantissa(SubSeq(u, 1, ePos - 1))
         /\ Unsigned(SubSeq(u, ePos + 1, Len(u))) # <<>>
         /\ AllIn(Unsigned(SubSeq(u, ePos + 1, Len(u))), DigitSet)

\* a literal with a radix prefix
IsRadix(v) ==
    LET radix(digits) == Len(v) > 2 /\ AllIn(SubSeq(v, 3, Len(v)), digits)
        prefixed(prefix) ==
            \/ prefix = Str("0x") /\ radix(HexSet)
            \/ prefix = Str("0o") /\ radix({"0", "1", "2", "3", "4", "5", "6", "7"})
            \/ prefix = Str("0b") /\ radix({"0", "1"})
    IN  Len(v) > 2 /\ prefixed(toLowerCase(SubSeq(v, 1, 2)))

\* what Number() reads as a number: the text trimmed is empty (0), a signed
\* Infinity or decimal literal, or a literal with a radix prefix
IsNumeric(v) ==
    LET signed(u) == u = Str("Infinity") \/ IsDecimal(u, ExponentAt(u))
    IN  v = <<>> \/ signed(Unsigned(v)) \/ IsRadix(v)

\* isNumber, lines 268..271: !isNaN(v) && v !== ''
isNumber(defaultValue) == defaultValue # <<>> /\ IsNumeric(trim(defaultValue))

\* isInQuotes, lines 257..260
isInQuotes(defaultValue) ==
    startsWith(defaultValue, <<"'">>) /\ endsWith(defaultValue, <<"'">>)

\* s.slice(1, -1)
slice1(s) == IF Len(s) < 2 THEN <<>> ELSE SubSeq(s, 2, Len(s) - 1)

quoted(s) == <<"'">> \o s \o <<"'">>

\* a group of n digits at position p
DigitsAt(s, p, n) ==
    p >= 1 /\ p + n - 1 <= Len(s) /\ \A k \in 0..(n - 1) : s[p + k] \in DigitSet

\* /\d{4}-\d{2}-\d{2}/ at position p
DateAt(s, p) ==
    /\ DigitsAt(s, p, 4) /\ MatchAt(s, p + 4, <<"-">>)
    /\ DigitsAt(s, p + 5, 2) /\ MatchAt(s, p + 7, <<"-">>)
    /\ DigitsAt(s, p + 8, 2)
HasDate(s) == \E p \in 1..Len(s) : DateAt(s, p)

\* /\d{4}-\d{2}-\d{2}\s+\d{2}:\d{2}:\d{2}/ somewhere in s
HasDateTime(s) ==
    \E p \in 1..Len(s) :
        /\ DateAt(s, p)
        /\ SkipSpace(s, p + 10) > p + 10
        /\ LET t == SkipSpace(s, p + 10)
           IN  /\ DigitsAt(s, t, 2) /\ MatchAt(s, t + 2, <<":">>)
               /\ DigitsAt(s, t + 3, 2) /\ MatchAt(s, t + 5, <<":">>)
               /\ DigitsAt(s, t + 6, 2)

\* /^<words>$/i with \s+ between the words
IsWords(s, words) == MatchWords(s, 1, words, 1) = Len(s) + 1

CurrentTimestampOn(s, event) ==
    IsWords(s, <<Str("current_timestamp"), Str("on"), event, Str("current_timestamp")>>)

\* the cases in another order: a text between single quotes is a literal
\* before it is anything else
fixDefaultValueLiteralFirst(defaultValue) ==
    IF defaultValue = Null \/ defaultValue = <<>> THEN Null
    ELSE IF isInQuotes(defaultValue) THEN quoted(slice1(defaultValue))
    ELSE IF includes(toUpperCase(defaultValue), Str("NULL")) THEN Str("NULL")
    ELSE IF isNumber(defaultValue) THEN quoted(defaultValue)
    ELSE IF HasDateTime(defaultValue) THEN quoted(defaultValue)
    ELSE IF toLowerCase(defaultValue) \in {Str("current_timestamp"), Str("now()"),
                                           Str("true"), Str("false")}
            \/ CurrentTimestampOn(defaultValue, Str("update"))
            \/ CurrentTimestampOn(defaultValue, Str("insert"))
         THEN toUpperCase(defaultValue)
    ELSE defaultValue

\* fixDefaultValue, lines 202..249 (case 6 lies behind case 5, which matches
\* whatever case 6 matches)
fixDefaultValue(defaultValue) ==
    IF defaultValue = Null \/ defaultValue = <<>> THEN Null
    ELSE IF includes(toUpperCase(defaultValue), Str("NULL")) THEN Str("NULL")
    ELSE IF isNumber(defaultValue) THEN quoted(defaultValue)
    ELSE IF toLowerCase(defaultValue) \in {Str("current_timestamp"), Str("now()")}
         THEN toUpperCase(defaultValue)
    ELSE IF isInQuotes(defaultValue) /\ HasDate(slice1(defaultValue))
         THEN quoted(slice1(defaultValue))
    ELSE IF HasDateTime(defaultValue) THEN quoted(defaultValue)
    ELSE IF toLowerCase(defaultValue) \in {Str("true"), Str("false")}
         THEN toUpperCase(defaultValue)
    ELSE IF CurrentTimestampOn(defaultValue, Str("update"))
         THEN toUpperCase(defaultValue)
    ELSE IF CurrentTimestampOn(defaultValue, Str("insert"))
         THEN toUpperCase(defaultValue)
    ELSE IF isInQuotes(defaultValue) THEN quoted(slice1(defaultValue))
    ELSE defaultValue

(***************************************************************************)
(* rg_fld_def and rg_fld_comment of parseTable.                            *)
(***************************************************************************)

QuoteSet == {"'", "\""}

\* The first group of rg_fld_def (line 84) matched with the keyword at p, as a
\* span; <<>> when the expression does not match there. After default\s+ the
\* value is a run without quotes, or a quoted literal; when neither follows
\* the white space, \s+ gives back its last character to the run.
\* w is the position after the keyword, t the one after the white space
DefaultGroupFrom(s, w, t) ==
    LET giveBack == IF t - w >= 2 THEN <<t - 1, t - 1>> ELSE <<>>
        run(stop) == <<t, IF stop = 0 THEN Len(s) ELSE stop - 1>>
        literal(close) == IF close # 0 THEN <<t, close>> ELSE giveBack
    IN  IF t = w THEN <<>>
        ELSE IF t > Len(s) THEN giveBack
        ELSE IF s[t] \notin QuoteSet
             THEN run(First(t, Len(s), LAMBDA j : s[j] \in QuoteSet))
        ELSE literal(First((t + 1), Len(s), LAMBDA j : s[j] = s[t]))

DefaultGroupAt(s, p) ==
    IF MatchAtCI(s, p, Str("default")) THEN DefaultGroupFrom(s, p + 7, SkipSpace(s, p + 7))
    ELSE <<>>

\* the text of a group trimmed, null when the expression did not match or
\* the group is empty: m && m[1] ? m[1].trim() : null
GroupTrimmed(s, group) ==
    IF group = <<>> \/ group[2] < group[1] THEN Null
    ELSE trim(SubSeq(s, group[1], group[2]))

\* lines 127..128
DefaultText(attr2) ==
    LET at(p) == DefaultGroupAt(attr2, p)
    IN  GroupTrimmed(attr2, FirstSpan(Len(attr2), at))

\* the group of rg_fld_comment = /COMMENT\s*'([^']*)'/i (line 85) matched at p
CommentGroupAt(s, p) ==
    LET close(open) == First((open + 1), Len(s), LAMBDA j : s[j] = "'")
        group(open) == IF open <= Len(s) /\ s[open] = "'" /\ close(open) # 0
                       THEN <<open + 1, close(open) - 1>>
                       ELSE <<>>
    IN  IF MatchAtCI(s, p, Str("comment")) THEN group(SkipSpace(s, p + 7)) ELSE <<>>

\* lines 132..133
CommentText(attr2) ==
    LET at(p) == CommentGroupAt(attr2, p)
    IN  GroupTrimmed(attr2, FirstSpan(Len(attr2), at))

(***************************************************************************)
(* TableParser.parseTable.                                                 *)
(***************************************************************************)

\* rg_tb, line 77: the header; create\s+table\s+if\s+not\s+exists is tried
\* before create\s+table. The keyword ends before position e; one white
\* space follows, then the name (.*, to the last \s\( of the line).
HeaderNameEnd(sql, e) ==
    LET last(limit) == Max({0} \cup {j \in (e + 1)..limit :
                                        sql[j] \in SpaceSet /\ sql[j + 1] = "("})
    IN  IF e = 0 \/ e > Len(sql) \/ sql[e] \notin SpaceSet THEN 0
        ELSE last(Min({SkipLine(sql, e + 1), Len(sql) - 1}))

CreateTableIfNotExists ==
    <<Str("create"), Str("table"), Str("if"), Str("not"), Str("exists")>>
CreateTable == <<Str("create"), Str("table")>>

\* the span of the group tb at a match that starts at p, <<>> if none
HeaderAt(sql, p) ==
    LET name(e, j) == IF j = 0 THEN <<>> ELSE <<e + 1, j - 1>>
        after(e) == name(e, HeaderNameEnd(sql, e))
        pick(first, second) == IF first # <<>> THEN first ELSE second
    IN  pick(after(MatchWords(sql, p, CreateTableIfNotExists, 1)),
             after(MatchWords(sql, p, CreateTable, 1)))

\* rg_tb.exec(sql): the span of tb at the first match, <<>> for null
rg_tb(sql) ==
    LET at(p) == HeaderAt(sql, p)
    IN  FirstSpan(Len(sql), at)

\* rg_fld, line 78: \w+\s+ and then one of these, in this order. "rest" is
\* followed by .*, "bare" by nothing, "list" by \s*\(.*\)
FldAlternatives ==
    <<[lit |-> Str("key"), kind |-> "rest"],
      [lit |-> Str("bigserial"), kind |-> "bare"],
      [lit |-> Str("serial4"), kind |-> "bare"],
      [lit |-> Str("serial8"), kind |-> "bare"],
      [lit |-> Str("tinyint"), kind |-> "rest"],
      [lit |-> Str("bigint"), kind |-> "rest"],
      [lit |-> Str("longtext"), kind |-> "rest"],
      [lit |-> Str("mediumtext"), kind |-> "rest"],
      [lit |-> Str("text"), kind |-> "rest"],
      [lit |-> Str("nvarchar"), kind |-> "rest"],
      [lit |-> Str("varchar"), kind |-> "rest"],
      [lit |-> Str("char"), kind |-> "rest"],
      [lit |-> Str("real"), kind |-> "rest"],
      [lit |-> Str("float"), kind |-> "rest"],
      [lit |-> Str("integer"), kind |-> "rest"],
      [lit |-> Str("int"), kind |-> "rest"],
      [lit |-> Str("datetime"), kind |-> "rest"],
      [lit |-> Str("date"), kind |-> "rest"],
      [lit |-> Str("double"), kind |-> "rest"],
      [lit |-> Str("timestamp"), kind |-> "rest"],
      [lit |-> Str("timestamptz"), kind |-> "rest"],
      [lit |-> Str("boolean"), kind |-> "rest"],
      [lit |-> Str("bool"), kind |-> "rest"],
      [lit |-> Str("enum"), kind |-> "list"],
      [lit |-> Str("set"), kind |-> "list"],
      [lit |-> Str("numeric"), kind |-> "list"],
      [lit |-> Str("decimal"), kind |-> "list"],
      [lit |-> Str("int2"), kind |-> "rest"],
      [lit |-> Str("int4"), kind |-> "rest"],
      [lit |-> Str("int8"), kind |-> "rest"],
      [lit |-> Str("time"), kind |-> "rest"],
      [lit |-> Str("uuid"), kind |-> "rest"],
      [lit |-> Str("money"), kind |-> "rest"],
      [lit |-> Str("blob"), kind |-> "rest"],
      [lit |-> Str("bit"), kind |-> "rest"],
      [lit |-> Str("json"), kind |-> "rest"]>>

\* the last position of alternative alt matched at t, 0 if it does not match
AlternativeEnd(sql, t, alt) ==
    LET lastClose(open) ==
            Max({0} \cup {j \in (open + 1)..(SkipLine(sql, open + 1) - 1) : sql[j] = ")"})
        list(open) == IF open > Len(sql) \/ sql[open] # "(" THEN 0 ELSE lastClose(open)
        end(e) == IF alt.kind = "rest" THEN SkipLine(sql, e) - 1
                  ELSE IF alt.kind = "bare" THEN e - 1
                  ELSE list(SkipSpace(sql, e))
    IN  IF MatchAtCI(sql, t, alt.lit) THEN end(t + Len(alt.lit)) ELSE 0

\* the last position of the first alternative that matches at t, 0 if none
FirstAlternativeEnd(sql, t) ==
    LET end(k) == AlternativeEnd(sql, t, FldAlternatives[k])
    IN  FirstValue(1, Len(FldAlternatives), end, 0)

\* the last position of a match of rg_fld that starts at p, 0 if none: the
\* word at p, white space, and the first alternative that matches
FldEnd(sql, p) ==
    LET afterSpace(e, t) == IF t = e THEN 0 ELSE FirstAlternativeEnd(sql, t)
        afterWord(e) == IF e = p THEN 0 ELSE afterSpace(e, SkipSpace(sql, e))
    IN  afterWord(SkipWord(sql, p))

\* rg_fld.exec(sql) with lastIndex = from - 1: the span of the next match,
\* <<>> for null. A match that starts inside a word starts at the head of the
\* word as well, so only heads of words and the position from are tried.
rg_fld(sql, from) ==
    LET span(p, e) == IF e = 0 THEN <<>> ELSE <<p, e>>
        head(p) == p = from \/ sql[p - 1] \notin WordSet
        at(p) == IF p >= from /\ sql[p] \in WordSet /\ head(p)
                 THEN span(p, FldEnd(sql, p))
                 ELSE <<>>
    IN  FirstSpan(Len(sql), at)

\* rg_fld2, line 79, on a fragment f that rg_fld matched: fname, ftype and
\* fattr, and the whole match
rg_fld2(f) ==
    LET groups(e, t, u, eol) ==
            [fname |-> SubSeq(f, 1, e - 1),
             ftype |-> SubSeq(f, t, u - 1),
             fattr |-> SubSeq(f, u, eol - 1),
             all |-> SubSeq(f, 1, eol - 1)]
        fromAttr(e, t, u) == groups(e, t, u, SkipLine(f, u))
        fromType(e, t) == fromAttr(e, t, SkipWord(f, t))
        fromName(e) == fromType(e, SkipSpace(f, e))
    IN  fromName(SkipWord(f, 1))

\* rg_pk2, line 86, carries the g flag: test(f) searches from its lastIndex
\* and leaves lastIndex behind the match, or at 0 when there is none.
\* The last position of a match that starts at p, 0 if none.
Pk2End(f, p) ==
    LET NameSet == WordSet \cup SpaceSet
        stop(from, class) ==
            First(from, (Len(f) + 1), LAMBDA j : j > Len(f) \/ f[j] \notin class)
        atClose(open, close) ==
            IF close = open + 1 \/ close > Len(f) \/ f[close] # ")" THEN 0 ELSE close
        atOpen(k, open) ==
            IF open = k \/ open > Len(f) \/ f[open] # "(" THEN 0
            ELSE atClose(open, stop(open + 1, NameSet \cup {","}))
        afterKey(k) == IF k = 0 THEN 0 ELSE atOpen(k, stop(k, NameSet))
    IN  afterKey(IF MatchAtCI(f, p, Str("primary key")) THEN p + 11
                 ELSE IF MatchAtCI(f, p, Str("unique key")) THEN p + 10
                 ELSE 0)

\* rg_pk2.test(f): whether it matches, and the lastIndex it leaves
rg_pk2_test(f, lastIndex) ==
    LET result(p0) == IF p0 = 0 THEN [found |-> FALSE, lastIndex |-> 0]
                      ELSE [found |-> TRUE, lastIndex |-> Pk2End(f, p0)]
    IN  result(First((lastIndex + 1), Len(f), LAMBDA p : Pk2End(f, p) # 0))

\* the locals of parseTable before the scan, lines 91..94, and the lastIndex
\* of rg_pk2
FieldScanInit ==
    [fieldList |-> <<>>, primaryKey |-> Null, columnList |-> <<>>,
     primaryKeyList |-> <<>>, pk2LastIndex |-> 0]

\* s.replace(c, '') for a one-character string c
RemoveFirst(s, c) == ReplaceFirst(s, StringSpan(s, <<c>>), <<>>)

\* s.split(c).join('')
RemoveAll(s, c) == LET other(x) == x # c IN SelectSeq(s, other)

\* lines 121..152: the column of a fragment f, from the groups of rg_fld2,
\* attr (line 120) and attr2 (line 122)
ColumnFrom(f, fld_def, attr, attr2) ==
    [Field |-> trim(fld_def.fname),
     Type |-> trim(fld_def.ftype),
     Length |-> getLength(attr),
     Key |-> (rg_pk(attr2) # <<>> \/ isPrimaryKey(f)),
     Nullable |-> (rg_not_null(attr) = <<>>),
     Default |-> fixDefaultValue(DefaultText(attr2)),
     AutoIncrement |-> isAutoIncrement(f),
     EnumValues |-> EnumArray(fld_def.all),
     Comment |-> CommentText(attr2)]

\* lines 102..152
ColumnOf(f) ==
    LET withAttr(fld_def, attr) ==
            ColumnFrom(f, fld_def, attr, ReplaceFirst(attr, rg_not_null(attr), <<>>))
        withGroups(fld_def) == withAttr(fld_def, trim(RemoveFirst(fld_def.fattr, ",")))
    IN  withGroups(rg_fld2(f))

\* lines 140..155: the column joins the list unless its name is there
AddColumn(st, col) ==
    LET listed(s1) == IF inArray(st.columnList, col.Field) THEN s1
                      ELSE [s1 EXCEPT !.fieldList = Append(@, col),
                                      !.columnList = Append(@, col.Field)]
    IN  listed(IF col.Key THEN [st EXCEPT !.primaryKeyList = Append(@, col.Field)]
               ELSE st)

\* lines 119..155: a fragment of a recognized type is a column
ScanColumn(st, f) == AddColumn(st, ColumnOf(f))

\* lines 156..163: a fragment with PRIMARY KEY that is no column
ScanTableKey(st, f) ==
    IF st.primaryKey = Null
    THEN [st EXCEPT !.primaryKey = SpanText(f, ParenGroup(f), Null)]
    ELSE st

\* the Key of every column set to whether it is listed
MarkKeysOnly(fieldList, names) ==
    [k \in 1..Len(fieldList) |->
        [fieldList[k] EXCEPT !.Key = inArray(names, fieldList[k].Field)]]

\* lines 167..171 and 178..182: Key becomes true for the columns listed
MarkKeys(fieldList, names) ==
    [k \in 1..Len(fieldList) |->
        IF inArray(names, fieldList[k].Field)
        THEN [fieldList[k] EXCEPT !.Key = TRUE]
        ELSE fieldList[k]]

\* lines 165..172
ScanPrimaryKey(st) ==
    LET named(name) == [st EXCEPT !.primaryKey = name,
                                  !.fieldList = MarkKeys(@, <<name>>)]
    IN  IF st.primaryKey # Null
        THEN named(RemoveAll(RemoveAll(st.primaryKey, "("), ")"))
        ELSE st

\* line 175..177: the names listed after the matched PRIMARY KEY text
KeyList(f) ==
    LET trimmed(parts) == [k \in 1..Len(parts) |-> trim(parts[k])]
        x == ReplaceFirst(f, rg_pk(f), <<>>)
    IN  trimmed(split(RemoveFirst(RemoveFirst(x, "("), ")"), <<",">>))

\* lines 174..183; the second test runs only when the first one matched
ScanKeyConstraint(st, f) ==
    LET tested(t) ==
            IF t.found /\ rg_pk(f) # <<>>
            THEN [st EXCEPT !.pk2LastIndex = t.lastIndex,
                            !.fieldList = MarkKeys(@, KeyList(f))]
            ELSE [st EXCEPT !.pk2LastIndex = t.lastIndex]
    IN  tested(rg_pk2_test(f, st.pk2LastIndex))

\* lines 97..183: the body of the while loop for one match f of rg_fld
ScanFragment(st, f) ==
    ScanKeyConstraint(
        ScanPrimaryKey(IF isValidType(rg_fld2(f).ftype) THEN ScanColumn(st, f)
                       ELSE IF isPrimaryKey(f) THEN ScanTableKey(st, f)
                       ELSE st),
        f)

\* the while loop of line 96, from the match m of rg_fld
RECURSIVE ScanFragments(_, _, _)
ScanFragments(st, sql, m) ==
    IF m = <<>> THEN st
    ELSE ScanFragments(ScanFragment(st, SubSeq(sql, m[1], m[2])), sql,
                       rg_fld(sql, m[2] + 1))

NoTable == [tableName |-> <<>>, columns |-> <<>>, primaryKey |-> Null]

\* lines 186..190: what parseTable returns after a scan that ended in st
TableOf(tableName, st) ==
    [tableName |-> tableName,
     columns |-> st.fieldList,
     primaryKey |-> IF st.primaryKey # Null THEN st.primaryKey
                    ELSE IF st.primaryKeyList = <<>> THEN Undefined
                    ELSE st.primaryKeyList[1]]

\* parseTable, lines 75..191. result.groups of a null result throws
\* (line 89), which is the only statement of parseTable that can throw.
parseTable(sql) ==
    LET parsed(tb) ==
            IF tb = <<>> THEN [threw |-> TRUE, table |-> NoTable]
            ELSE [threw |-> FALSE,
                  table |-> TableOf(SubSeq(sql, tb[1], tb[2]),
                                    ScanFragments(FieldScanInit, sql, rg_fld(sql, 1)))]
    IN  parsed(rg_tb(sql))

(***************************************************************************)
(* SQLConverter: the dialect tables and the type mapper.                   *)
(***************************************************************************)

\* The tables the constructor builds (lines 15..83), as the sequence of their
\* entries in the order for..in visits them. A key written twice in the
\* object literal keeps its first place and its last value.
ConstructorDbToSqlite ==
    <<(<<Str("int"), Str("INTEGER")>>), <<Str("tinyint"), Str("INTEGER")>>,
      <<Str("smallint"), Str("INTEGER")>>, <<Str("mediumint"), Str("INTEGER")>>,
      <<Str("bigint"), Str("INTEGER")>>, <<Str("float"), Str("REAL")>>,
      <<Str("double"), Str("REAL")>>, <<Str("decimal"), Str("REAL")>>,
      <<Str("nvarchar"), Str("NVARCHAR")>>, <<Str("varchar"), Str("NVARCHAR")>>,
      <<Str("character varying"), Str("NVARCHAR")>>, <<Str("char"), Str("TEXT")>>,
      <<Str("text"), Str("TEXT")>>, <<Str("tinytext"), Str("TEXT")>>,
      <<Str("mediumtext"), Str("TEXT")>>, <<Str("longtext"), Str("TEXT")>>,
      <<Str("date"), Str("TEXT")>>, <<Str("datetime"), Str("TEXT")>>,
      <<Str("timestamp"), Str("TEXT")>>, <<Str("time"), Str("TEXT")>>,
      <<Str("year"), Str("INTEGER")>>, <<Str("boolean"), Str("INTEGER")>>,
      <<Str("json"), Str("TEXT")>>, <<Str("jsonb"), Str("TEXT")>>,
      <<Str("integer"), Str("INTEGER")>>, <<Str("serial"), Str("INTEGER")>>,
      <<Str("bigserial"), Str("INTEGER")>>, <<Str("double precision"), Str("REAL")>>,
      <<Str("timestamptz"), Str("TEXT")>> >>

\* the table of MySQL with the entry of DATE moved in front of DATETIME
ConstructorDbToMySQLDateFirst ==
    <<(<<Str("INTEGER"), Str("INT")>>), <<Str("REAL"), Str("FLOAT")>>,
      <<Str("TEXT"), Str("TEXT")>>, <<Str("NVARCHAR"), Str("VARCHAR")>>,
      <<Str("VARCHAR"), Str("VARCHAR")>>, <<Str("CHARACTER VARYING"), Str("VARCHAR")>>,
      <<Str("TINYINT(1)"), Str("TINYINT(1)")>>, <<Str("BOOLEAN"), Str("TINYINT(1)")>>,
      <<Str("DATE"), Str("DATE")>>, <<Str("DATETIME"), Str("DATETIME")>>,
      <<Str("TIMESTAMPTZ"), Str("TIMESTAMP")>>,
      <<Str("TIMESTAMP WITH TIME ZONE"), Str("TIMESTAMP")>>,
      <<Str("TIMESTAMP WITHOUT TIME ZONE"), Str("DATETIME")>>,
      <<Str("TIMESTAMP"), Str("TIMESTAMPTZ")>>, <<Str("JSON"), Str("JSON")>> >>

ConstructorDbToMySQL ==
    <<(<<Str("INTEGER"), Str("INT")>>), <<Str("REAL"), Str("FLOAT")>>,
      <<Str("TEXT"), Str("TEXT")>>, <<Str("NVARCHAR"), Str("VARCHAR")>>,
      <<Str("VARCHAR"), Str("VARCHAR")>>, <<Str("CHARACTER VARYING"), Str("VARCHAR")>>,
      <<Str("TINYINT(1)"), Str("TINYINT(1)")>>, <<Str("BOOLEAN"), Str("TINYINT(1)")>>,
      <<Str("DATETIME"), Str("DATETIME")>>, <<Str("DATE"), Str("DATE")>>,
      <<Str("TIMESTAMPTZ"), Str("TIMESTAMP")>>,
      <<Str("TIMESTAMP WITH TIME ZONE"), Str("TIMESTAMP")>>,
      <<Str("TIMESTAMP WITHOUT TIME ZONE"), Str("DATETIME")>>,
      <<Str("TIMESTAMP"), Str("TIMESTAMPTZ")>>, <<Str("JSON"), Str("JSON")>> >>

ConstructorDbToPostgreSQL ==
    <<(<<Str("INTEGER"), Str("INTEGER")>>), <<Str("REAL"), Str("REAL")>>,
      <<Str("TEXT"), Str("TEXT")>>, <<Str("NVARCHAR"), Str("CHARACTER VARYING")>>,
      <<Str("VARCHAR"), Str("CHARACTER VARYING")>>, <<Str("BOOLEAN"), Str("BOOLEAN")>>,
      <<Str("DATETIME"), Str("TIMESTAMP WITHOUT TIME ZONE")>>, <<Str("DATE"), Str("DATE")>>,
      <<Str("TIMESTAMPTZ"), Str("TIMESTAMP WITH TIME ZONE")>>,
      <<Str("TIMESTAMP"), Str("TIMESTAMP WITH TIME ZONE")>>, <<Str("JSON"), Str("JSONB")>> >>

\* replaceAll, lines 93..96: search is compiled as a regular expression with
\* the flags g and i. A pattern is given here as what the expression means:
\* its characters in lower case, with Dot for a . of the source text.
Dot == "DOT"
PatternAt(s, i, pat) ==
    /\ i + Len(pat) - 1 <= Len(s)
    /\ \A k \in 1..Len(pat) :
          IF pat[k] = Dot THEN s[i + k - 1] \notin LineEndSet
          ELSE toLowerChar(s[i + k - 1]) = pat[k]
replaceAll(str, pat, replacement) ==
    LET hit(i) == PatternAt(str, i, pat)
        spans == DisjointSpans(SelectSeq(Indices(str), hit), 1, Len(pat), 1)
    IN  IF spans = <<>> THEN str ELSE ReplaceSpans(str, spans, replacement, 1)

\* the text of a numeric literal that decides whether it is 0: the
\* mantissa of a decimal literal, the digits after a radix prefix
NumberBody(v, u) ==
    LET mantissa(ePos) == IF ePos = 0 THEN u ELSE SubSeq(u, 1, ePos - 1)
    IN  IF u = Str("Infinity") THEN <<"1">>
        ELSE IF Len(v) > 1 /\ v[2] \in {"x", "X", "o", "O", "b", "B"}
             THEN SubSeq(v, 3, Len(v))
        ELSE mantissa(ExponentAt(u))

\* Number(length) > 0 for the text of a length: a numeric literal that is not
\* negative and holds a digit other than 0 (an exponent is not evaluated)
IsPositiveNumber(length) ==
    LET nonZero(body) == \E k \in 1..Len(body) : body[k] \in (HexSet \ {"0"})
        positive(v) == /\ v # <<>>
                       /\ IsNumeric(v)
                       /\ v[1] # "-"
                       /\ nonZero(NumberBody(v, Unsigned(v)))
    IN  positive(trim(length))

\* length == 1 of line 333 for the text of a length: the decimal forms of 1
\* (the forms with an exponent or a radix prefix are left out)
EqualsOne(length) ==
    LET one(whole, frac) == /\ whole # <<>>
                            /\ whole[Len(whole)] = "1"
                            /\ AllIn(SubSeq(whole, 1, Len(whole) - 1), {"0"})
                            /\ AllIn(frac, {"0"})
        atPoint(u, dot) == IF dot = 0 THEN one(u, <<>>)
                           ELSE one(SubSeq(u, 1, dot - 1), SubSeq(u, dot + 1, Len(u)))
        unsigned(u) == atPoint(u, First(1, Len(u), LAMBDA k : u[k] = "."))
        signed(v) == unsigned(IF v # <<>> /\ v[1] = "+" THEN Tail(v) ELSE v)
    IN  signed(trim(length))

\* a number in decimal, for the lengths the mapper prints
RECURSIVE NumberToString(_)
NumberToString(n) ==
    LET d == Str("0123456789")[(n % 10) + 1]
    IN  IF n < 10 THEN <<d>> ELSE NumberToString(n \div 10) \o <<d>>

\* parseEnumValue, lines 400..417: the matches of /'([^']+)'/g
RECURSIVE QuotedValues(_, _)
QuotedValues(s, from) ==
    LET close(p) == First((p + 1), Len(s), LAMBDA j : s[j] = "'")
        match(p0, q) == IF p0 = 0 THEN <<>>
                        ELSE <<SubSeq(s, p0 + 1, q - 1)>> \o QuotedValues(s, q + 1)
        first(p0) == match(p0, IF p0 = 0 THEN 0 ELSE close(p0))
    IN  first(First(from, Len(s), LAMBDA p : s[p] = "'" /\ close(p) > p + 1))

parseEnumValue(inputString) ==
    LET result(resultArray) ==
            [resultArray |-> resultArray,
             maxLength |-> Max({0} \cup {Len(resultArray[k]) : k \in 1..Len(resultArray)})]
    IN  result(QuotedValues(inputString, 1))

\* The loop of lines 306..314, 348..356 and 376..384: the value of the first
\* entry whose key the type starts with, TEXT when there is none.
LookupType(map, type) ==
    LET value(k0) == IF k0 = 0 THEN Str("TEXT") ELSE map[k0][2]
        first(lower) ==
            First(1, Len(map), LAMBDA k : startsWith(lower, toLowerCase(map[k][1])))
    IN  value(first(toLowerCase(type)))

IsEnumType(type) == includes(toUpperCase(type), Str("ENUM"))

Sized(type, length) == type \o <<"(">> \o length \o <<")">>

\* toSqliteType, lines 304..323, over the table this.dbToSqlite
toSqliteType(map, type, length) ==
    LET sized(sqliteType) ==
            IF sqliteType \in {Str("NVARCHAR"), Str("INT")} /\ IsPositiveNumber(length)
            THEN Sized(sqliteType, length)
            ELSE sqliteType
    IN  IF IsEnumType(type)
        THEN Sized(Str("NVARCHAR"), NumberToString(parseEnumValue(length).maxLength + 2))
        ELSE sized(LookupType(map, type))

\* toMySQLType, lines 331..366, over the table this.dbToMySQL
toMySQLType(map, type, length) ==
    LET integers == {Str("TINYINT"), Str("SMALLINT"), Str("MEDIUMINT"),
                     Str("BIGINT"), Str("INTEGER"), Str("INT")}
        sized(mysqlType) ==
            IF mysqlType = Str("VARCHAR") /\ IsPositiveNumber(length)
            THEN Sized(mysqlType, length)
            ELSE mysqlType
        mapped == IF IsEnumType(type)
                  THEN Str("enum('")
                       \o join(parseEnumValue(length).resultArray, Str("','"))
                       \o Str("')")
                  ELSE replaceAll(LookupType(map, type), Str("timestamptz"),
                                  Str("TIMESTAMP"))
        typed(upper) ==
            IF upper = Str("TINYINT") /\ EqualsOne(length) THEN Str("TINYINT(1)")
            ELSE IF upper \in integers /\ IsPositiveNumber(length)
                 THEN Sized(type, length)
            ELSE sized(mapped)
    IN  typed(toUpperCase(type))

\* toPostgreSQLType, lines 374..393, over the table this.dbToPostgreSQL
toPostgreSQLType(map, type, length) ==
    LET sized(pgType) ==
            IF pgType = Str("CHARACTER VARYING") /\ IsPositiveNumber(length)
            THEN Sized(pgType, length)
            ELSE pgType
    IN  IF IsEnumType(type)
        THEN Sized(Str("CHARACTER VARYING"),
                   NumberToString(parseEnumValue(length).maxLength + 2))
        ELSE sized(LookupType(map, type))

(***************************************************************************)
(* SQLConverter: the CREATE TABLE text of a table.                         *)
(***************************************************************************)

MySQLTargets == {"mysql", "mariadb"}
PostgreSQLTargets == {"pgsql", "postgresql"}

\* SQLConverter.fixDefaultValue, lines 289..296
converterFixDefaultValue(defaultValue, targetType) ==
    IF targetType = "sqlite" /\ includes(toLowerCase(defaultValue), Str("now("))
    THEN <<>>
    ELSE defaultValue

\* lines 249..276: the line of one column
ColumnLine(column, tablePrimaryKey, targetType) ==
    LET columnName == IF targetType \in MySQLTargets
                      THEN <<BT>> \o column.Field \o <<BT>>
                      ELSE column.Field
        primaryKey == column.Field = tablePrimaryKey
        colDef == <<"\t">> \o columnName \o <<" ">> \o column.Type
                  \o (IF primaryKey THEN Str(" PRIMARY KEY") \o Str(" NOT NULL")
                      ELSE IF column.Nullable THEN Str(" NULL")
                      ELSE Str(" NOT NULL"))
        withDefault(line, defaultValue) ==
            IF defaultValue # <<>> THEN line \o Str(" DEFAULT ") \o defaultValue
            ELSE line
        fixed(defaultValue) ==
            converterFixDefaultValue(
                replaceAll(defaultValue, Str("::character varying"), <<>>), targetType)
    IN  IF ~primaryKey /\ column.Default # <<>> /\ column.Default # Null
        THEN withDefault(colDef, fixed(column.Default))
        ELSE colDef

\* toTable, lines 234..281
toTable(table, targetType) ==
    LET quote(bare) == IF targetType \in MySQLTargets THEN <<BT>> \o bare \o <<BT>>
                       ELSE IF targetType \in PostgreSQLTargets
                            THEN <<"\"">> \o bare \o <<"\"">>
                       ELSE bare
        tableName == quote(IF includes(table.tableName, <<".">>)
                           THEN split(table.tableName, <<".">>)[2]
                           ELSE table.tableName)
        linesCol == [k \in 1..Len(table.columns) |->
                        ColumnLine(table.columns[k], table.primaryKey, targetType)]
    IN  join(<<Str("CREATE TABLE ") \o tableName, <<"(">>,
               join(linesCol, Str(",\r\n")), Str(");")>>, Str("\r\n"))

\* toSqliteOut, toMySQLOut and toPostgreSQLOut, lines 146..196: a copy of the
\* table whose columns carry the mapped type
WithTypes(table, toType(_, _)) ==
    [tableName |-> table.tableName,
     primaryKey |-> table.primaryKey,
     columns |-> [i \in 1..Len(table.columns) |->
                     [table.columns[i] EXCEPT
                         !.Type = toType(table.columns[i].Type, table.columns[i].Length)]]]

\* convertQuery, lines 130..138, with the dialect tables of the instance;
\* a target it does not know falls through and the call returns undefined
convertQuery(table, targetType, sqliteMap, mysqlMap, pgMap) ==
    LET sqliteType(type, length) == toSqliteType(sqliteMap, type, length)
        mysqlType(type, length) == toMySQLType(mysqlMap, type, length)
        pgType(type, length) == toPostgreSQLType(pgMap, type, length)
    IN  IF targetType = "sqlite" THEN toTable(WithTypes(table, sqliteType), targetType)
        ELSE IF targetType \in MySQLTargets
             THEN toTable(WithTypes(table, mysqlType), targetType)
        ELSE IF targetType \in PostgreSQLTargets
             THEN toTable(WithTypes(table, pgType), targetType)
        ELSE Undefined

\* lines 105..110 of translate
Preprocess(value) ==
    LET v1 == replaceAll(value, <<BT>>, <<>>)
        v2 == replaceAll(v1, Str(" timestamp with time zone"), Str(" timestamptz"))
        v3 == replaceAll(v2, Str(" timestamp without time zone"), Str(" timestamp"))
        v4 == replaceAll(v3, Str(" character varying"), Str(" varchar"))
        v5 == replaceAll(v4, Str(" collate pg_catalog") \o <<Dot>> \o Str("\"default\""), <<>>)
        \* in ' TINYINT(1)' the parentheses group the 1
    IN  replaceAll(v5, Str(" tinyint1"), Str(" boolean"))

\* the lines joined by a line feed alone, in the place of line 120
JoinLinesLF(lines) ==
    join([k \in 1..Len(lines) |-> IF lines[k] = Undefined THEN <<>> ELSE lines[k]],
         Str("\n"))

\* Array.prototype.join of line 120: undefined joins as the empty string
JoinLines(lines) ==
    join([k \in 1..Len(lines) |-> IF lines[k] = Undefined THEN <<>> ELSE lines[k]],
         Str("\r\n"))

(***************************************************************************)
(* The scripts the calls are made with.                                    *)
(***************************************************************************)

\* the most declarations of a statement handed to parseTable, and of one
\* handed to parseAll or translate; the most statements of a script handed to
\* parseAll, and to translate; the number of calls of translate in a row
MaxCols == 3
MaxStmts == 3
MaxScriptCols == 2
MaxTranslateStmts == 2
MaxCalls == 2
\* the most lines of a script handed to parseSQL
MaxLines == 3

Targets == {"sqlite", "mysql", "mariadb", "pgsql", "postgresql"}

\* the example script of the README, on one line
UsersScript ==
    Str("CREATE TABLE users (id INT NOT NULL AUTO_INCREMENT PRIMARY KEY, ")
    \o Str("username VARCHAR(255) NOT NULL, email VARCHAR(255), created_at DATETIME);")

\* what stands between the parentheses of a generated CREATE TABLE
Declarations ==
    <<Str("a INT NOT NULL"),
      Str("a VARCHAR(20) DEFAULT 'x' COMMENT 'n'"),
      Str("b INT"),
      Str("c INT PRIMARY KEY"),
      Str("c BIGSERIAL PRIMARY KEY"),
      Str("c INT NOT NULL"),
      Str("p DECIMAL(10,2)"),
      Str("p SMALLINT"),
      Str("p INT"),
      Str("PRIMARY KEY(c)"),
      Str("PRIMARY KEY(a,b)")>>

\* which declarations declare a column; the others are table-level keys
IsColumn(k) == k < 10
\* the name of the column a declaration declares
DeclaredName(k) == <<Declarations[k][1]>>

\* a statement with its declarations on one line, or one on a line each
TableText(name, decls, layout) ==
    LET list == [k \in 1..Len(decls) |-> Declarations[decls[k]]]
    IN  IF layout = "line"
        THEN Str("CREATE TABLE ") \o name \o Str(" (") \o join(list, Str(", "))
             \o Str(");")
        ELSE Str("CREATE TABLE ") \o name \o Str(" (\n\t") \o join(list, Str(",\n\t"))
             \o Str("\n);")
TableStatement(name, decls) == TableText(name, decls, "line")

\* the statements of a generated script; HasHeader tells which of them
\* start a table
Statements ==
    <<TableStatement(Str("t1"), <<1, 3>>),
      Str("DROP TABLE old;"),
      Str("CREATE TABLE IF NOT EXISTS s.t2 (\n  c INT PRIMARY KEY,\n  b INT\n);"),
      Str("INSERT INTO t1 (a, b) VALUES (1, 2);")>>
HasHeader(k) == k \in {1, 3}

\* the bodies of a procedure under DELIMITER $$
Bodies ==
    <<Str("CREATE PROCEDURE p()\nBEGIN\n  SELECT 1;\nEND$$"),
      Str("CREATE PROCEDURE p()\nBEGIN\n  DECLARE v INT;\n  SET v = 1;\nEND\n$$"),
      Str("CREATE PROCEDURE p()\nBEGIN\n  CREATE TABLE log (\n    id INT\n  );\nEND$$")>>

Block(body) == Str("DELIMITER $$\n") \o Bodies[body] \o Str("\nDELIMITER ;")

SeqsUpTo(S, n) == UNION {[1..m -> S] : m \in 0..n}

\* tables of up to n declarations, each taken once and in the order above
InOrder(d) == \A k \in 1..(Len(d) - 1) : d[k] < d[k + 1]
TablesUpTo(n) ==
    {[family |-> "table", decls |-> d] :
        d \in {e \in SeqsUpTo(1..Len(Declarations), n) : e # <<>> /\ InOrder(e)}}
ScriptsUpTo(n) ==
    {[family |-> "script", stmts |-> q] : q \in SeqsUpTo(1..Len(Statements), n)}
TableInputs == TablesUpTo(MaxCols)
ScriptInputs == ScriptsUpTo(MaxStmts)
BlockInputs ==
    {[family |-> "block", body |-> b, before |-> f] :
        b \in 1..Len(Bodies), f \in BOOLEAN}
UsersInput == [family |-> "users"]

\* scripts of one table each: a default of now() on a column that is not the
\* last, on the last column of a statement on one line, and on the last
\* column of a statement of several lines; two columns with PRIMARY KEY; a
\* table name with a database and a schema in front; a column whose type
\* qualifier holds a comma (DECIMAL, NUMERIC, ENUM) between two others; a
\* column with a length (VARCHAR, NVARCHAR) as the first column, as the last
\* one, and with a default of now() behind it
SampleScripts ==
    <<Str("CREATE TABLE t (d DATETIME DEFAULT now(), n INT);"),
      Str("CREATE TABLE t (n INT, d DATETIME DEFAULT Now());"),
      Str("CREATE TABLE t (\n  n INT,\n  d DATETIME NOT NULL DEFAULT NOW()\n);"),
      Str("CREATE TABLE t (a INT PRIMARY KEY, b INT PRIMARY KEY);"),
      Str("CREATE TABLE db.s.t (a INT);"),
      Str("CREATE TABLE t (a INT, p DECIMAL(10,2), b INT);"),
      Str("CREATE TABLE t (a INT, p NUMERIC(10,2), b INT);"),
      Str("CREATE TABLE t (a INT, p ENUM('a','bb','ccc'), b INT);"),
      Str("CREATE TABLE t (v VARCHAR(20), n INT);"),
      Str("CREATE TABLE t (n INT, v VARCHAR(20));"),
      Str("CREATE TABLE t (v NVARCHAR(30) DEFAULT now(), n INT);"),
      Str("CREATE TABLE t (\n  v NVARCHAR(30) NOT NULL,\n  n INT\n);")>>
SampleInputs == {[family |-> "sample", k |-> k] : k \in 1..Len(SampleScripts)}

BlockTable == TableStatement(Str("t"), <<1, 3>>)

ScriptOf(in) ==
    IF in.family = "users" THEN UsersScript
    ELSE IF in.family = "sample" THEN SampleScripts[in.k]
    ELSE IF in.family = "table" THEN TableStatement(Str("t"), in.decls)
    ELSE IF in.family = "script"
         THEN join([k \in 1..Len(in.stmts) |-> Statements[in.stmts[k]]], <<"\n">>)
    ELSE IF in.before THEN Block(in.body) \o <<"\n">> \o BlockTable
    ELSE BlockTable \o <<"\n">> \o Block(in.body)

(***************************************************************************)
(* The state: one SQLConverter, the TableParser its translate builds, and  *)
(* the locals of the call in progress.                                     *)
(***************************************************************************)

VARIABLES
    dbToSqlite, dbToMySQL, dbToPostgreSQL,  \* the converter's dialect tables
    pc,            \* where the call in progress stands
    caller,        \* "translate", or "parseAll" when the parser is driven alone
    input,         \* what the script of the call was built from
    value,         \* the script: translate's value, parseAll's sql
    targetType,
    parsedResult,  \* parseAll: the statements parseSQL returned
    i,             \* the index of the for..in loop in progress
    inf,           \* parseAll: the tables collected so far
    tableInfo,     \* TableParser.tableInfo
    lines,         \* translate: the lines collected so far
    resultTable,   \* what the last call of translate returned
    calls,         \* the number of calls made on the converter
    returned,      \* every <<input, targetType, result>> returned so far
    table,         \* what a call of parseTable by a caller of its own returned
    mappedType,    \* what a call of a type mapper by a caller of its own returned
    scan,          \* parseTable followed step by step: the locals of its loop
    result,        \* and the match of rg_fld the loop stands at
    defaultValue   \* what a call of fixDefaultValue by a caller of its own returned

vars == <<dbToSqlite, dbToMySQL, dbToPostgreSQL, pc, caller, input, value,
          targetType, parsedResult, i, inf, tableInfo, lines, resultTable,
          calls, returned, table, mappedType, scan, result, defaultValue>>

maps == <<dbToSqlite, dbToMySQL, dbToPostgreSQL>>

NoInput == [family |-> "none"]

\* parseAll, lines 305..317, as a whole: the tables of the statements that
\* parseTable does not fail on, in the order of the statements
RECURSIVE ParsedTables(_, _)
ParsedTables(queries, k) ==
    LET rest(r) == IF r.threw THEN ParsedTables(queries, k + 1)
                   ELSE <<r.table>> \o ParsedTables(queries, k + 1)
    IN  IF k > Len(queries) THEN <<>>
        ELSE rest(parseTable(formatSQL(queries[k].query)))

\* translate, lines 104..121, as a whole on a converter just constructed
TranslateFresh(script, d) ==
    LET converted(tables) ==
            [k \in 1..(2 * Len(tables)) |->
                IF k % 2 = 0 THEN <<>>
                ELSE convertQuery(tables[(k + 1) \div 2], d, ConstructorDbToSqlite,
                                  ConstructorDbToMySQL, ConstructorDbToPostgreSQL)]
    IN  JoinLines(converted(ParsedTables(parseSQL(Preprocess(script)), 1)))

\* new SQLConverter(): lines 15..83; no call is in progress
Init ==
    /\ dbToSqlite = ConstructorDbToSqlite
    /\ dbToMySQL = ConstructorDbToMySQL
    /\ dbToPostgreSQL = ConstructorDbToPostgreSQL
    /\ pc = "idle"
    /\ caller = "none"
    /\ input = NoInput
    /\ value = <<>>
    /\ targetType = "none"
    /\ parsedResult = <<>>
    /\ i = 0
    /\ inf = <<>>
    /\ tableInfo = <<>>
    /\ lines = <<>>
    /\ resultTable = <<>>
    /\ calls = 0
    /\ returned = {}
    /\ table = NoTable
    /\ mappedType = <<>>
    /\ scan = FieldScanInit
    /\ result = <<>>
    /\ defaultValue = Null

(***************************************************************************)
(* The calls, step by step.                                                *)
(***************************************************************************)

\* parseTable without the try of line 308: its exception leaves parseAll
ParseTableUncaught(sub) ==
    LET thrown(r) == [threw |-> r.threw, pushed |-> ~r.threw, info |-> r.table]
    IN  thrown(parseTable(sub))

\* lines 308..316 of parseAll: parseTable under try, the catch block empty.
\* threw tells whether the exception leaves parseAll, pushed whether line
\* 311 ran, info what it pushed.
TryParseTable(sub) ==
    LET caught(r) == [threw |-> FALSE, pushed |-> ~r.threw, info |-> r.table]
    IN  caught(parseTable(sub))

\* inf.unshift(info) in the place of the push of line 311
PushFirst(list, info) == <<info>> \o list

\* inf.push(info), line 311
Push(list, info) == Append(list, info)

\* lines kept from the call before, in the place of line 114
StaleLines(old) == old

\* let lines = [], line 114, whatever an earlier call left behind
NewLines(old) == <<>>

\* translate, lines 104..112: the replacements, a new TableParser (whose
\* constructor empties tableInfo, line 12) and the call of parseAll
Translate(in, d) ==
    /\ pc \in {"idle", "done"}
    /\ input' = in
    /\ caller' = "translate"
    /\ value' = Preprocess(ScriptOf(in))
    /\ targetType' = d
    /\ tableInfo' = <<>>
    /\ calls' = calls + 1
    /\ pc' = "parseAll"
    /\ UNCHANGED <<maps, defaultValue, mappedType, scan, result, table, parsedResult, i, inf, lines, resultTable, returned>>

\* parseAll called on a new TableParser by a caller of its own
ParseAllCall(in) ==
    /\ pc = "idle"
    /\ input' = in
    /\ caller' = "parseAll"
    /\ value' = ScriptOf(in)
    /\ pc' = "parseAll"
    /\ UNCHANGED <<maps, defaultValue, mappedType, scan, result, table, targetType, tableInfo, calls, parsedResult, i, inf, lines,
                   resultTable, returned>>

\* parseTable called on a new TableParser by a caller of its own
ParseTableCall(in) ==
    /\ pc = "idle"
    /\ input' = in
    /\ caller' = "parseTable"
    /\ value' = TableText(Str("t"), in.decls, "lines")
    /\ pc' = "parseTableCall"
    /\ UNCHANGED <<maps, defaultValue, mappedType, scan, result, table, targetType, tableInfo, calls, parsedResult, i, inf,
                   lines, resultTable, returned>>

\* parseTable, lines 75..191; an exception of line 89 reaches the caller
ParseTable ==
    /\ pc = "parseTableCall"
    /\ LET return(r) == /\ pc' = IF r.threw THEN "error" ELSE "table"
                        /\ table' = r.table
       IN  return(parseTable(value))
    /\ UNCHANGED <<maps, defaultValue, mappedType, scan, result, caller, input, value, targetType, tableInfo, calls,
                   parsedResult, i, inf, lines, resultTable, returned>>

\* parseAll, lines 303..304
ParseAll ==
    /\ pc = "parseAll"
    /\ inf' = <<>>
    /\ parsedResult' = parseSQL(value)
    /\ i' = 1
    /\ pc' = "parseTable"
    /\ UNCHANGED <<maps, defaultValue, mappedType, scan, result, table, caller, input, value, targetType, tableInfo, lines,
                   resultTable, calls, returned>>

\* parseAll, lines 305..317: one round of the loop
ParseStatement ==
    /\ pc = "parseTable"
    /\ i <= Len(parsedResult)
    /\ LET round(t) ==
               IF t.threw
               THEN pc' = "error" /\ UNCHANGED <<inf, i>>
               ELSE /\ inf' = IF t.pushed THEN Push(inf, t.info) ELSE inf
                    /\ i' = i + 1
                    /\ pc' = pc
       IN  round(TryParseTable(formatSQL(parsedResult[i].query)))
    /\ UNCHANGED <<maps, defaultValue, mappedType, scan, result, table, caller, input, value, targetType, parsedResult, tableInfo,
                   lines, resultTable, calls, returned>>

\* parseAll, line 318, and back in translate lines 113..114
ParseAllEnd ==
    /\ pc = "parseTable"
    /\ i > Len(parsedResult)
    /\ tableInfo' = inf
    /\ IF caller = "translate"
       THEN lines' = NewLines(lines) /\ i' = 1 /\ pc' = "convert"
       ELSE pc' = "parsed" /\ UNCHANGED <<lines, i>>
    /\ UNCHANGED <<maps, defaultValue, mappedType, scan, result, table, caller, input, value, targetType, parsedResult, inf,
                   resultTable, calls, returned>>

\* translate, lines 115..119: one round of the loop
ConvertTable ==
    /\ pc = "convert"
    /\ i <= Len(tableInfo)
    /\ lines' = lines \o <<convertQuery(tableInfo[i], targetType,
                                         dbToSqlite, dbToMySQL, dbToPostgreSQL), <<>> >>
    /\ i' = i + 1
    /\ UNCHANGED <<maps, defaultValue, mappedType, scan, result, table, pc, caller, input, value, targetType, parsedResult, inf,
                   tableInfo, resultTable, calls, returned>>

\* translate, lines 120..121
Return ==
    /\ pc = "convert"
    /\ i > Len(tableInfo)
    /\ resultTable' = JoinLines(lines)
    /\ returned' = returned \cup {<<input, targetType, resultTable'>>}
    /\ pc' = "done"
    /\ UNCHANGED <<maps, defaultValue, mappedType, scan, result, table, caller, input, value, targetType, parsedResult, i, inf,
                   tableInfo, lines, calls>>

\* one call of translate on a new converter, with any script and target
TranslateInputs ==
    {UsersInput} \cup ScriptsUpTo(MaxTranslateStmts) \cup BlockInputs
    \cup TablesUpTo(MaxScriptCols) \cup SampleInputs
TranslateOnce ==
    \E in \in TranslateInputs, d \in Targets : calls = 0 /\ Translate(in, d)

Next ==
    \/ TranslateOnce
    \/ ParseAll
    \/ ParseStatement
    \/ ParseAllEnd
    \/ ConvertTable
    \/ Return

Spec == Init /\ [][Next]_vars

\* calls of translate one after the other on the same converter
CallInputs ==
    {[family |-> "script", stmts |-> <<1, 2, 3>>],
     [family |-> "script", stmts |-> <<2>>],
     [family |-> "table", decls |-> <<2, 4>>]}
CallTargets == {"sqlite", "pgsql"}
TranslateAgain ==
    \E in \in CallInputs, d \in CallTargets : calls < MaxCalls /\ Translate(in, d)

NextCalls ==
    \/ TranslateAgain
    \/ ParseAll
    \/ ParseStatement
    \/ ParseAllEnd
    \/ ConvertTable
    \/ Return

SpecCalls == Init /\ [][NextCalls]_vars

\* parseAll on a new TableParser, with any script
ParserInputs ==
    {UsersInput} \cup ScriptInputs \cup BlockInputs \cup TablesUpTo(MaxScriptCols)
ParseAllOnce ==
    \E in \in ParserInputs : ParseAllCall(in)

\* parseTable on a statement that has one declaration on a line each
ParseTableOnce ==
    \E in \in TableInputs : ParseTableCall(in)

NextParser ==
    \/ ParseAllOnce
    \/ ParseTableOnce
    \/ ParseTable
    \/ ParseAll
    \/ ParseStatement
    \/ ParseAllEnd

SpecParser == Init /\ [][NextParser]_vars

(***************************************************************************)
(* The statement splitter called by a caller of its own.                   *)
(***************************************************************************)

\* the lines a script is made of: lines that end with the terminator ; and
\* lines that do not, a blank line, a comment, DELIMITER lines in both letter
\* cases, a line that ends with $$, and one with ; as its last character but
\* one
ScriptLineTexts ==
    <<Str("SELECT 1;"),
      Str("SELECT 2"),
      Str("FROM t;"),
      Str(""),
      Str("-- note"),
      Str("DELIMITER $$"),
      Str("END$$"),
      Str("delimiter ;"),
      Str("SET s = ';'")>>

SplitterInputs ==
    {[family |-> "lines", lines |-> l] :
        l \in SeqsUpTo(1..Len(ScriptLineTexts), MaxLines)}

\* the script of the lines, one line feed between them
LinesScript(ls) == join([k \in 1..Len(ls) |-> ScriptLineTexts[ls[k]]], <<"\n">>)

\* parseSQL called on a new TableParser by a caller of its own
ParseSQLCall(in) ==
    /\ pc = "idle"
    /\ input' = in
    /\ caller' = "parseSQL"
    /\ value' = LinesScript(in.lines)
    /\ pc' = "parseSQLCall"
    /\ UNCHANGED <<maps, defaultValue, mappedType, scan, result, table, targetType, tableInfo, calls, parsedResult,
                   i, inf, lines, resultTable, returned>>

\* parseSQL, lines 371..459, returns
ParseSQL ==
    /\ pc = "parseSQLCall"
    /\ parsedResult' = parseSQL(value)
    /\ pc' = "split"
    /\ UNCHANGED <<maps, defaultValue, mappedType, scan, result, table, caller, input, value, targetType, tableInfo,
                   calls, i, inf, lines, resultTable, returned>>

ParseSQLOnce ==
    \E in \in SplitterInputs : ParseSQLCall(in)

NextSplitter ==
    \/ ParseSQLOnce
    \/ ParseSQL

SpecSplitter == Init /\ [][NextSplitter]_vars

(***************************************************************************)
(* The type mappers called on a column by a caller of their own.           *)
(***************************************************************************)

\* the literal lists of ENUM columns; a literal may be the empty string
EnumLists ==
    {<<Str("a"), Str("bb"), Str("ccc")>>,
     <<Str("ccc"), Str("a")>>,
     <<Str("x")>>,
     <<Str("dddd"), Str("bb")>>,
     <<Str(""), Str("abc")>>}

\* the text between the parentheses of ENUM(...), which is the column's Length
EnumLength(literals) ==
    join([k \in 1..Len(literals) |-> quoted(literals[k])], <<",">>)

\* the columns the mappers are called with: ENUM and SET columns in either
\* letter case, and columns of the types of the parser's type list, in
\* either letter case, with the lengths a declaration may carry
ColumnTypes ==
    {Str("INTEGER"), Str("REAL"), Str("TEXT"), Str("NVARCHAR"), Str("BLOB"),
     Str("VARCHAR"), Str("TINYINT"), Str("DATETIME")}
    \cup {typeList[k] : k \in 1..Len(typeList)}
    \cup {toLowerCase(typeList[k]) : k \in 1..Len(typeList)}
ColumnLengths == {<<>>, Str("1"), Str("20")}
ColumnInputs ==
    {[family |-> "enum", type |-> t, literals |-> l, length |-> EnumLength(l)] :
        t \in {Str("ENUM"), Str("enum")}, l \in EnumLists}
    \cup {[family |-> "set", type |-> t, literals |-> l, length |-> EnumLength(l)] :
            t \in {Str("SET"), Str("set")}, l \in EnumLists}
    \cup {[family |-> "column", type |-> t, length |-> n] :
            t \in ColumnTypes, n \in ColumnLengths}

\* column.Type = this.toSqliteType(column.Type, column.Length) of toSqliteOut,
\* and the same line of toMySQLOut and of toPostgreSQLOut
mapType(type, length, d, sqliteMap, mysqlMap, pgMap) ==
    IF d = "sqlite" THEN toSqliteType(sqliteMap, type, length)
    ELSE IF d \in MySQLTargets THEN toMySQLType(mysqlMap, type, length)
    ELSE toPostgreSQLType(pgMap, type, length)

\* a mapper is called on a column of a new converter
MapTypeCall(in, d) ==
    /\ pc = "idle"
    /\ input' = in
    /\ caller' = "mapType"
    /\ targetType' = d
    /\ pc' = "mapTypeCall"
    /\ UNCHANGED <<maps, defaultValue, mappedType, scan, result, table, value, tableInfo, calls, parsedResult, i,
                   inf, lines, resultTable, returned>>

\* the mapper returns
MapType ==
    /\ pc = "mapTypeCall"
    /\ mappedType' = mapType(input.type, input.length, targetType,
                             dbToSqlite, dbToMySQL, dbToPostgreSQL)
    /\ pc' = "mapped"
    /\ UNCHANGED <<maps, defaultValue, scan, result, table, caller, input, value, targetType, tableInfo, calls,
                   parsedResult, i, inf, lines, resultTable, returned>>

\* the mapper is called on what it returned, with the same length
MapTypeAgain ==
    /\ pc = "mapped"
    /\ mappedType' = mapType(mappedType, input.length, targetType,
                             dbToSqlite, dbToMySQL, dbToPostgreSQL)
    /\ pc' = "mappedAgain"
    /\ UNCHANGED <<maps, defaultValue, scan, result, table, caller, input, value, targetType, tableInfo, calls,
                   parsedResult, i, inf, lines, resultTable, returned>>

MapTypeOnce ==
    \E in \in ColumnInputs, d \in Targets : MapTypeCall(in, d)

NextMapper ==
    \/ MapTypeOnce
    \/ MapType
    \/ MapTypeAgain

SpecMapper == Init /\ [][NextMapper]_vars

(***************************************************************************)
(* parseTable followed fragment by fragment.                               *)
(***************************************************************************)

\* the most declarations of a statement whose scan is followed
MaxScanCols == 3

\* what stands between the parentheses of the statements: columns with and
\* without an inline PRIMARY KEY, columns with a DEFAULT that is bare or
\* quoted and is or is not followed by a COMMENT, and named keys
ScanDeclarations ==
    <<Str("a INT NOT NULL"),
      Str("b INT"),
      Str("c INT PRIMARY KEY"),
      Str("d BIGINT PRIMARY KEY"),
      Str("n INT DEFAULT 0 COMMENT 'x'"),
      Str("s VARCHAR(20) DEFAULT 'no default comment' COMMENT 'y'"),
      Str("m INT DEFAULT 7"),
      Str("PRIMARY KEY pk (a)"),
      Str("PRIMARY KEY pk (a, b)"),
      Str("UNIQUE KEY uk (b)"),
      Str("UNIQUE KEY uk (a, b)")>>

\* statements of up to MaxScanCols of them, in the order above
ScanInputs ==
    {[family |-> "scan", decls |-> d] :
        d \in {e \in SeqsUpTo(1..Len(ScanDeclarations), MaxScanCols) :
                  e # <<>> /\ InOrder(e)}}

\* the statement, one declaration on a line
ScanText(decls) ==
    Str("CREATE TABLE t (\n\t")
    \o join([k \in 1..Len(decls) |-> ScanDeclarations[decls[k]]], Str(",\n\t"))
    \o Str("\n);")

\* parseTable called on a new TableParser by a caller of its own
ParseTableScanCall(in) ==
    /\ pc = "idle"
    /\ input' = in
    /\ caller' = "parseTable"
    /\ value' = ScanText(in.decls)
    /\ pc' = "scanCall"
    /\ UNCHANGED <<maps, defaultValue, mappedType, scan, result, table, targetType, tableInfo, calls,
                   parsedResult, i, inf, lines, resultTable, returned>>

\* parseTable, lines 88..96: the table name, the locals and the first match
ScanStart ==
    /\ pc = "scanCall"
    /\ IF rg_tb(value) = <<>>
       THEN pc' = "error" /\ UNCHANGED <<scan, result>>
       ELSE /\ scan' = FieldScanInit
            /\ result' = rg_fld(value, 1)
            /\ pc' = "scan"
    /\ UNCHANGED <<maps, defaultValue, mappedType, table, caller, input, value, targetType, tableInfo,
                   calls, parsedResult, i, inf, lines, resultTable, returned>>

\* parseTable, lines 97..184 and the test of line 96: one round of the loop
ScanStep ==
    /\ pc = "scan"
    /\ result # <<>>
    /\ scan' = ScanFragment(scan, SubSeq(value, result[1], result[2]))
    /\ result' = rg_fld(value, result[2] + 1)
    /\ UNCHANGED <<maps, defaultValue, mappedType, table, pc, caller, input, value, targetType,
                   tableInfo, calls, parsedResult, i, inf, lines, resultTable, returned>>

\* parseTable, lines 186..190
ScanEnd ==
    /\ pc = "scan"
    /\ result = <<>>
    /\ table' = LET tb == rg_tb(value) IN TableOf(SubSeq(value, tb[1], tb[2]), scan)
    /\ pc' = "scanned"
    /\ UNCHANGED <<maps, defaultValue, mappedType, scan, result, caller, input, value, targetType,
                   tableInfo, calls, parsedResult, i, inf, lines, resultTable, returned>>

ParseTableScanOnce == \E in \in ScanInputs : ParseTableScanCall(in)

NextScan ==
    \/ ParseTableScanOnce
    \/ ScanStart
    \/ ScanStep
    \/ ScanEnd

SpecScan == Init /\ [][NextScan]_vars

(***************************************************************************)
(* fixDefaultValue called by a caller of its own.                          *)
(***************************************************************************)

\* raw default values of every kind the normalizer tells apart
DefaultWords ==
    {Str("NULL"), Str("12"), Str("-3.5"), Str("1e3"), Str("0"),
     Str("CURRENT_TIMESTAMP"), Str("Now()"), Str("Now())"),
     Str("Current_Timestamp On Update Current_Timestamp"),
     Str("Current_Timestamp  On Insert Current_Timestamp"),
     Str("Current_Timestamp On Delete Current_Timestamp"),
     Str("True"), Str("False"), Str("Truely"),
     Str("2021-01-01"), Str("2021-01-01 10:20:30"), Str("2021-01-01 10:20:30.000000"),
     Str("2021-01-01  10:20"), Str("abc"), Str("a b"), Str("it's"), Str("nullable"),
     Str("0 COMMENT"), Str("x::character varying")}

\* a value as written, in capitals and in small letters, bare, between single
\* quotes and between double quotes; no value and the empty value
DefaultTokens ==
    LET cased == DefaultWords \cup {toUpperCase(w) : w \in DefaultWords}
                 \cup {toLowerCase(w) : w \in DefaultWords}
    IN  cased \cup {quoted(w) : w \in cased}
        \cup {<<"\"">> \o w \o <<"\"">> : w \in DefaultWords}
        \cup {Null, <<>>, Str("'"), Str("''")}

FixDefaultValueCall(token) ==
    /\ pc = "idle"
    /\ input' = [family |-> "default", token |-> token]
    /\ caller' = "fixDefaultValue"
    /\ pc' = "fixDefaultValueCall"
    /\ UNCHANGED <<maps, defaultValue, mappedType, scan, result, table, value, targetType,
                   tableInfo, calls, parsedResult, i, inf, lines, resultTable, returned>>

\* fixDefaultValue, lines 202..249
FixDefaultValue ==
    /\ pc = "fixDefaultValueCall"
    /\ defaultValue' = fixDefaultValue(input.token)
    /\ pc' = "fixed"
    /\ UNCHANGED <<maps, mappedType, scan, result, table, caller, input, value, targetType,
                   tableInfo, calls, parsedResult, i, inf, lines, resultTable, returned>>

FixDefaultValueOnce == \E token \in DefaultTokens : FixDefaultValueCall(token)

NextDefault ==
    \/ FixDefaultValueOnce
    \/ FixDefaultValue

SpecDefault == Init /\ [][NextDefault]_vars

(***************************************************************************)
(* What the calls are claimed to do.                                       *)
(***************************************************************************)

\* the lines of a text that translate returned
OutputLines(text) == split(text, Str("\r\n"))
\* its lines that open a table
HeaderLines(text) ==
    SelectSeq(OutputLines(text), LAMBDA l : startsWith(l, Str("CREATE TABLE ")))
\* its column lines, without the tab in front and the comma behind
ColumnLines(text) ==
    LET bare(l) == IF l[Len(l)] = "," THEN SubSeq(l, 2, Len(l) - 1)
                   ELSE SubSeq(l, 2, Len(l))
        cols == SelectSeq(OutputLines(text), LAMBDA l : l # <<>> /\ l[1] = "\t")
    IN  [k \in 1..Len(cols) |-> bare(cols[k])]

UsersDone(d) == pc = "done" /\ input = UsersInput /\ targetType = d

\* C1: translate of the users script to pgsql returns one table, "users" in
\* double quotes, whose column lines are "id" INTEGER NOT NULL PRIMARY KEY,
\* "username" CHARACTER VARYING(255) NOT NULL, "email" CHARACTER VARYING(255)
\* NULL and "created_at" TIMESTAMP WITHOUT TIME ZONE NULL, in this order.
C1_UsersToPostgreSQL ==
    UsersDone("pgsql") =>
        /\ Len(HeaderLines(resultTable)) = 1
        /\ startsWith(HeaderLines(resultTable)[1], Str("CREATE TABLE \"users\""))
        /\ ColumnLines(resultTable) =
               <<Str("\"id\" INTEGER NOT NULL PRIMARY KEY"),
                 Str("\"username\" CHARACTER VARYING(255) NOT NULL"),
                 Str("\"email\" CHARACTER VARYING(255) NULL"),
                 Str("\"created_at\" TIMESTAMP WITHOUT TIME ZONE NULL")>>

\* C2: translate of the users script to sqlite returns one table, users
\* without quotes, whose column lines are id INTEGER NOT NULL PRIMARY KEY,
\* username NVARCHAR(255) NOT NULL, email NVARCHAR(255) NULL and created_at
\* TEXT NULL, in this order, and no identifier is quoted anywhere.
C2_UsersToSqlite ==
    UsersDone("sqlite") =>
        /\ Len(HeaderLines(resultTable)) = 1
        /\ startsWith(HeaderLines(resultTable)[1], Str("CREATE TABLE users"))
        /\ ColumnLines(resultTable) =
               <<Str("id INTEGER NOT NULL PRIMARY KEY"),
                 Str("username NVARCHAR(255) NOT NULL"),
                 Str("email NVARCHAR(255) NULL"),
                 Str("created_at TEXT NULL")>>
        /\ \A k \in 1..Len(resultTable) : resultTable[k] \notin {"\"", BT}

\* the CREATE TABLE statement of a script with a DELIMITER block, as parseSQL
\* returns it when it stands alone, and the table parseAll makes of it
BlockTableQuery == parseSQL(BlockTable)[1].query
BlockTableAlone == ParsedTables(parseSQL(BlockTable), 1)

\* C3: when a DELIMITER $$ block with a procedure body stands before or after
\* a CREATE TABLE statement, parseAll yields exactly one table, the one it
\* yields for the statement alone, and the statement that holds the table is
\* the CREATE TABLE statement without any line of the block.
C3_BlockIgnored ==
    (pc = "parsed" /\ input.family = "block") =>
        /\ tableInfo = BlockTableAlone
        /\ Len(tableInfo) = 1
        /\ \A k \in 1..Len(parsedResult) :
               rg_tb(formatSQL(parsedResult[k].query)) # <<>>
                   => parsedResult[k].query = BlockTableQuery

\* the names of the tables of a generated script, in the order of the script
StatementTable(k) == IF k = 1 THEN Str("t1") ELSE Str("s.t2")
ScriptTables(stmts) ==
    LET heads == SelectSeq(stmts, HasHeader)
    IN  [k \in 1..Len(heads) |-> StatementTable(heads[k])]
TableNames(tables) == [k \in 1..Len(tables) |-> tables[k].tableName]

\* C4: parseAll ends without an error whatever the statements are, and the
\* table list it leaves holds the table of every statement that parseTable
\* does not fail on, and of no other, in the order of the statements; a
\* statement without a CREATE TABLE header between two tables costs neither.
C4_FailuresIsolated ==
    /\ caller = "parseAll" => pc # "error"
    /\ (caller = "parseAll" /\ pc = "parsed") =>
           /\ tableInfo = ParsedTables(parsedResult, 1)
           /\ input.family = "script" =>
                  /\ Len(parsedResult) = Len(input.stmts)
                  /\ TableNames(tableInfo) = ScriptTables(input.stmts)

\* C4 happens: a script of a table, a statement that is none, and a table
C4_Witness ==
    /\ pc = "parsed"
    /\ input = [family |-> "script", stmts |-> <<1, 2, 3>>]
    /\ Len(parsedResult) = 3
    /\ rg_tb(formatSQL(parsedResult[2].query)) = <<>>
    /\ TableNames(tableInfo) = <<Str("t1"), Str("s.t2")>>

\* whether no statement of a script matches the CREATE TABLE header
NoHeader(queries) ==
    \A k \in 1..Len(queries) : rg_tb(formatSQL(queries[k].query)) = <<>>

\* C5: a call of translate never ends in an error, whatever the script and
\* whichever of the five targets, and it returns the empty string when no
\* statement of the script matches the CREATE TABLE header.
C5_TranslateNeverFails ==
    /\ pc # "error"
    /\ (pc = "done" /\ NoHeader(parsedResult)) => resultTable = <<>>

\* C5 happens: a script of two statements, neither a table, was translated
C5_Witness ==
    /\ pc = "done"
    /\ input = [family |-> "script", stmts |-> <<2, 4>>]
    /\ Len(parsedResult) = 2
    /\ NoHeader(parsedResult)
    /\ resultTable = <<>>

\* C6: whatever calls of translate came before on the same converter, a call
\* returns what it returns on a new converter, two calls with the same script
\* and target return the same, and the dialect tables stay as constructed.
C6_TranslatePure ==
    /\ dbToSqlite = ConstructorDbToSqlite
    /\ dbToMySQL = ConstructorDbToMySQL
    /\ dbToPostgreSQL = ConstructorDbToPostgreSQL
    /\ \A x \in returned, y \in returned :
           (x[1] = y[1] /\ x[2] = y[2]) => x[3] = y[3]
    /\ pc = "done" => resultTable = TranslateFresh(ScriptOf(input), targetType)

\* C6 happens: a second call returned tables after a call with another
\* script and another target had returned tables as well
C6_Witness ==
    /\ pc = "done"
    /\ calls = 2
    /\ resultTable # <<>>
    /\ \E x \in returned : x[1] # input /\ x[2] # targetType /\ x[3] # <<>>

\* parseTable returned, called on a statement with a declaration on a line each
TableReturned == pc = "table" /\ caller = "parseTable"
ColumnsOnly(decls) == \A k \in 1..Len(decls) : IsColumn(decls[k])
DistinctNames(decls) ==
    \A j \in 1..Len(decls), k \in 1..Len(decls) :
        j # k => DeclaredName(decls[j]) # DeclaredName(decls[k])
FieldNames(columns) == [k \in 1..Len(columns) |-> columns[k].Field]

\* C7: parseTable of a statement that declares N columns of distinct names
\* returns N columns, named as declared and in the order of the declarations.
C7_EveryColumnKept ==
    (TableReturned /\ ColumnsOnly(input.decls) /\ DistinctNames(input.decls)) =>
        FieldNames(table.columns) =
            [k \in 1..Len(input.decls) |-> DeclaredName(input.decls[k])]

\* what each declaration of a column says: type, length, nullable, default
\* and comment
Declared ==
    <<[Type |-> Str("INT"), Length |-> <<>>, Nullable |-> FALSE,
       Default |-> Null, Comment |-> Null],
      [Type |-> Str("VARCHAR"), Length |-> Str("20"), Nullable |-> TRUE,
       Default |-> Str("'x'"), Comment |-> Str("n")],
      [Type |-> Str("INT"), Length |-> <<>>, Nullable |-> TRUE,
       Default |-> Null, Comment |-> Null],
      [Type |-> Str("INT"), Length |-> <<>>, Nullable |-> TRUE,
       Default |-> Null, Comment |-> Null],
      [Type |-> Str("BIGSERIAL"), Length |-> <<>>, Nullable |-> TRUE,
       Default |-> Null, Comment |-> Null],
      [Type |-> Str("INT"), Length |-> <<>>, Nullable |-> FALSE,
       Default |-> Null, Comment |-> Null],
      [Type |-> Str("DECIMAL"), Length |-> Str("10,2"), Nullable |-> TRUE,
       Default |-> Null, Comment |-> Null],
      [Type |-> Str("SMALLINT"), Length |-> <<>>, Nullable |-> TRUE,
       Default |-> Null, Comment |-> Null],
      [Type |-> Str("INT"), Length |-> <<>>, Nullable |-> TRUE,
       Default |-> Null, Comment |-> Null]>>

\* the first declaration of a list that declares the column of declaration k
FirstDeclaration(decls, k) ==
    decls[First(1, Len(decls), LAMBDA j : DeclaredName(decls[j]) = DeclaredName(k))]
SameAttributes(column, d) ==
    /\ column.Type = d.Type
    /\ column.Length = d.Length
    /\ column.Nullable = d.Nullable
    /\ column.Default = d.Default
    /\ column.Comment = d.Comment

\* C8: when a statement declares a column name twice, parseTable returns one
\* column of that name, with the type, length, nullable, default and comment
\* of the first of the declarations, and no two columns have the same name.
C8_FirstDeclarationWins ==
    (TableReturned /\ ColumnsOnly(input.decls) /\ ~DistinctNames(input.decls)) =>
        /\ \A j \in 1..Len(table.columns), k \in 1..Len(table.columns) :
               j # k => table.columns[j].Field # table.columns[k].Field
        /\ \A k \in 1..Len(input.decls) :
               \E j \in 1..Len(table.columns) :
                   /\ table.columns[j].Field = DeclaredName(input.decls[k])
                   /\ SameAttributes(table.columns[j],
                                     Declared[FirstDeclaration(input.decls, input.decls[k])])

Declares(decls, k) == \E j \in 1..Len(decls) : decls[j] = k
KeyOf(columns, name) ==
    \E j \in 1..Len(columns) : columns[j].Field = name /\ columns[j].Key

\* C9: a column c of a type of the type list that is declared with PRIMARY
\* KEY, and one declared without it next to a table-level PRIMARY KEY(c), both
\* come out of parseTable with Key true, and the table's primaryKey is c.
C9_PrimaryKeyMarked ==
    (/\ TableReturned
     /\ ~Declares(input.decls, 11)
     /\ \/ Declares(input.decls, 4) /\ ~Declares(input.decls, 5)
        \/ Declares(input.decls, 5) /\ ~Declares(input.decls, 4)
        \/ Declares(input.decls, 6) /\ Declares(input.decls, 10)) =>
        /\ KeyOf(table.columns, Str("c"))
        /\ table.primaryKey = Str("c")

\* C10: for a table that declares columns a and b and a table-level PRIMARY
\* KEY(a,b), parseTable returns Key true for a and for b, and no primaryKey.
C10_CompositeKey ==
    (/\ TableReturned
     /\ Declares(input.decls, 1) \/ Declares(input.decls, 2)
     /\ Declares(input.decls, 3)
     /\ Declares(input.decls, 11)) =>
        /\ KeyOf(table.columns, Str("a"))
        /\ KeyOf(table.columns, Str("b"))
        /\ table.primaryKey \in {Null, Undefined}

\* a mapper returned, called on an ENUM column
EnumMapped == pc = "mapped" /\ input.family = "enum"
\* the length of the longest literal of a list
LongestLiteral(literals) == Max({Len(literals[k]) : k \in 1..Len(literals)})

\* C11: an ENUM column maps to NVARCHAR(n) for sqlite and to CHARACTER
\* VARYING(n) for pgsql and postgresql, n being the length of its longest
\* literal plus 2 (5 for 'a','bb','ccc'), and for mysql and mariadb to enum(...)
\* with its literals in single quotes and in the order of the source.
C11_EnumSized ==
    EnumMapped =>
        LET size == NumberToString(LongestLiteral(input.literals) + 2)
        IN  /\ targetType = "sqlite" => mappedType = Sized(Str("NVARCHAR"), size)
            /\ targetType \in PostgreSQLTargets =>
                   mappedType = Sized(Str("CHARACTER VARYING"), size)
            /\ targetType \in MySQLTargets =>
                   mappedType = Sized(Str("enum"), EnumLength(input.literals))

\* the types SQLite has of its own
SqliteNative == {Str("INTEGER"), Str("REAL"), Str("TEXT"), Str("NVARCHAR"), Str("BLOB")}
\* a type without its length: the text before the first (
BaseType(type) ==
    LET before(p) == IF p = 0 THEN type ELSE SubSeq(type, 1, p - 1)
    IN  before(indexOf(type, <<"(">>))
NativeToSqlite ==
    /\ caller = "mapType"
    /\ targetType = "sqlite"
    /\ input.family = "column"
    /\ input.type \in SqliteNative

\* C12: toSqliteType of a type SQLite has of its own (INTEGER, REAL, TEXT,
\* NVARCHAR, BLOB) returns a type of the same base type, and toSqliteType of
\* what it returned returns the same again.
C12_SqliteIdentity ==
    NativeToSqlite =>
        /\ pc = "mapped" => BaseType(mappedType) = input.type
        /\ pc = "mappedAgain" =>
               mappedType = toSqliteType(dbToSqlite, input.type, input.length)

\* a call of translate with a sample script returned
SampleDone(k) == pc = "done" /\ input = [family |-> "sample", k |-> k]
\* the sample scripts with a column d of DEFAULT now(), and where d stands
NowSamples == {1, 2, 3}
NowColumn(k) == IF k = 1 THEN 1 ELSE 2

\* C13: a column that is no primary key and is declared with DEFAULT now(),
\* in any letter case, is emitted with DEFAULT NOW() as its default clause for
\* mysql, mariadb, pgsql and postgresql, and without a DEFAULT for sqlite.
C13_DefaultNow ==
    \A k \in NowSamples :
        SampleDone(k) =>
            /\ Len(ColumnLines(resultTable)) = 2
            /\ LET line == ColumnLines(resultTable)[NowColumn(k)]
               IN  IF targetType = "sqlite" THEN ~includes(line, Str("DEFAULT"))
                   ELSE endsWith(line, Str(" DEFAULT NOW()"))

\* every line break of a text is a carriage return followed by a line feed
OnlyCRLF(text) ==
    \A p \in 1..Len(text) :
        /\ text[p] = "\n" => (p > 1 /\ text[p - 1] = "\r")
        /\ text[p] = "\r" => (p < Len(text) /\ text[p + 1] = "\n")
\* the positions, among the lines of a text, of the lines that open a
\* statement and of the lines that close one
OpeningLines(ls) ==
    SelectSeq(Indices(ls), LAMBDA j : startsWith(ls[j], Str("CREATE TABLE ")))
ClosingLines(ls) == SelectSeq(Indices(ls), LAMBDA j : ls[j] = Str(");"))
\* the tables of the call were emitted
TablesDone == pc = "done" /\ Len(tableInfo) >= 1

\* C14: when the script has k >= 1 tables, what translate returns is the k
\* statements emitted for the tables, in the order of the tables; each ends
\* with the line ); which is followed by a line break and one empty line, and
\* every line break of the text is CRLF.
C14_OutputLayout ==
    TablesDone =>
        LET ls == OutputLines(resultTable)
            open == OpeningLines(ls)
            close == ClosingLines(ls)
        IN  /\ OnlyCRLF(resultTable)
            /\ Len(open) = Len(tableInfo)
            /\ Len(close) = Len(tableInfo)
            /\ \A k \in 1..Len(tableInfo) :
                   /\ open[k] = IF k = 1 THEN 1 ELSE close[k - 1] + 2
                   /\ close[k] < Len(ls)
                   /\ ls[close[k] + 1] = <<>>
                   /\ join(SubSeq(ls, open[k], close[k]), Str("\r\n")) =
                          convertQuery(tableInfo[k], targetType,
                                       dbToSqlite, dbToMySQL, dbToPostgreSQL)
            /\ Len(ls) = close[Len(close)] + 1

\* C14 happens: two tables were emitted, one after the other
C14_Witness ==
    /\ pc = "done"
    /\ input = [family |-> "script", stmts |-> <<1, 3>>]
    /\ TableNames(tableInfo) = <<Str("t1"), Str("s.t2")>>
    /\ Len(ClosingLines(OutputLines(resultTable))) = 2

\* the columns of the tables of a call, in the order they are emitted
RECURSIVE AllColumns(_, _)
AllColumns(tables, k) ==
    IF k > Len(tables) THEN <<>> ELSE tables[k].columns \o AllColumns(tables, k + 1)

\* C19: for every target, a column whose Key is true is emitted with NOT NULL
\* whatever its Nullable says, also when it is not the primaryKey of its table.
C19_KeyNotNull ==
    pc = "done" =>
        LET columns == AllColumns(tableInfo, 1)
            emitted == ColumnLines(resultTable)
        IN  /\ Len(emitted) = Len(columns)
            /\ \A j \in 1..Len(columns) :
                   columns[j].Key => includes(emitted[j], Str(" NOT NULL"))

\* the part of a name after its last point, the name itself when it has none
LastSegment(name) ==
    LET parts == split(name, <<".">>)
    IN  parts[Len(parts)]
\* a name in the quotes of a target
Quoted(name, d) ==
    IF d \in MySQLTargets THEN <<BT>> \o name \o <<BT>>
    ELSE IF d \in PostgreSQLTargets THEN <<"\"">> \o name \o <<"\"">>
    ELSE name

\* C20: the statement emitted for a table names it by the part of tableName
\* after its last point, whether the name has one point, several or none.
C20_SchemaStripped ==
    pc = "done" =>
        LET heads == HeaderLines(resultTable)
        IN  /\ Len(heads) = Len(tableInfo)
            /\ \A k \in 1..Len(tableInfo) :
                   heads[k] = Str("CREATE TABLE ")
                              \o Quoted(LastSegment(tableInfo[k].tableName), targetType)

\* What the splitter is claimed to do, line by line: delimiter is the
\* terminator in force, open tells whether a statement is being accumulated,
\* text is what it has accumulated, closes the terminator it started under,
\* closed the statements closed so far.
ClaimedInit ==
    [delimiter |-> Str(";"), open |-> FALSE, text |-> <<>>, closes |-> <<>>,
     closed |-> <<>>]
ClaimedLine(st, raw) ==
    LET text == trim(raw)
        opened == IF st.open THEN st
                  ELSE [st EXCEPT !.open = TRUE, !.text = <<>>, !.closes = st.delimiter]
        added == [opened EXCEPT !.text = @ \o text \o Str("\r\n")]
        statement == [query |-> substringTo(trim(added.text),
                                            Len(trim(added.text)) - Len(added.closes)),
                      delimiter |-> added.closes]
    IN  IF text = <<>>
        THEN IF st.open THEN [st EXCEPT !.text = @ \o Str("\r\n")] ELSE st
        ELSE IF startsWith(text, Str("-- ")) THEN st
        ELSE IF startsWith(toLowerCase(text), Str("delimiter "))
             THEN [st EXCEPT !.delimiter = DelimiterToken(text)]
        ELSE IF endsWith(text, added.closes)
             THEN [added EXCEPT !.open = FALSE, !.closed = Append(@, statement)]
        ELSE added
RECURSIVE ClaimedScan(_, _, _)
ClaimedScan(st, ls, k) ==
    IF k > Len(ls) THEN st
    ELSE ClaimedScan(ClaimedLine(st, ScriptLineTexts[ls[k]]), ls, k + 1)
\* the statements the lines of a script close, each with its terminator
ClosedStatements(ls) == ClaimedScan(ClaimedInit, ls, 1).closed

\* parseSQL returned, called on a script of the given kinds of lines
SplitDone == pc = "split" /\ caller = "parseSQL"
LinesAmong(kinds) == \A k \in 1..Len(input.lines) : input.lines[k] \in kinds
\* a starts b
StartsList(a, b) == Len(a) <= Len(b) /\ \A k \in 1..Len(a) : a[k] = b[k]
\* no statement returned holds the text
NoneHolds(lit) ==
    \A k \in 1..Len(parsedResult) : ~includes(toLowerCase(parsedResult[k].query), lit)

\* C15: in a script without DELIMITER lines and blank lines, a line closes the
\* statement exactly when its trimmed text ends with the terminator, and the
\* text returned for the statement is its lines without that terminator.
C15_ClosesAtTerminator ==
    (SplitDone /\ LinesAmong({1, 2, 3, 5, 7, 9})) =>
        StartsList(ClosedStatements(input.lines), parsedResult)

\* C16: a DELIMITER line, in either letter case, at the start of a statement
\* or inside one, makes its token the terminator of the statements that start
\* after it and of no statement before it, and none of its text is returned.
C16_DelimiterDirective ==
    (SplitDone /\ LinesAmong({1, 2, 3, 6, 7, 8})) =>
        /\ StartsList(ClosedStatements(input.lines), parsedResult)
        /\ NoneHolds(Str("delimiter"))

\* C17: blank lines and lines that start with -- and a blank add no text to
\* a statement, and a blank line between two lines of a statement is returned
\* as one more line break in its text.
C17_BlankLineKept ==
    (SplitDone /\ LinesAmong({1, 2, 3, 4, 5})) =>
        /\ StartsList(ClosedStatements(input.lines), parsedResult)
        /\ NoneHolds(Str("note"))

\* C18: parseSQL returns the closed statements and nothing else, in the order
\* of the script and each with the terminator that closed it; lines after the
\* last terminator are not returned, and no DELIMITER line is.
C18_ClosedOnly ==
    SplitDone =>
        LET closed == ClosedStatements(input.lines)
        IN  /\ Len(parsedResult) = Len(closed)
            /\ \A k \in 1..Len(parsedResult) :
                   /\ parsedResult[k].delimiter = closed[k].delimiter
                   /\ ~startsWith(toLowerCase(parsedResult[k].query), Str("delimiter "))

\* the quote character of a target around identifiers, none for sqlite
QuoteOf(d) == Quoted(<<>>, d)
\* a text holds a quote character of some target
HasQuote(text) == \E p \in 1..Len(text) : text[p] \in {BT, "\""}
\* a text is an identifier in the quotes of a target and holds no other quote
IsQuoted(text, d) ==
    \E name \in {SubSeq(text, p, q) : p \in 1..(Len(text) + 1), q \in 0..Len(text)} :
        ~HasQuote(name) /\ name # <<>> /\ text = Quoted(name, d)

\* C21: the table name and every column name of an emitted statement stand
\* in backticks for mysql and mariadb, in double quotes for pgsql and
\* postgresql, and bare for sqlite.
C21_IdentifiersQuoted ==
    pc = "done" =>
        LET heads == HeaderLines(resultTable)
            columns == AllColumns(tableInfo, 1)
            emitted == ColumnLines(resultTable)
        IN  /\ \A k \in 1..Len(heads) :
                   IsQuoted(SubSeq(heads[k], Len(Str("CREATE TABLE ")) + 1, Len(heads[k])),
                            targetType)
            /\ Len(emitted) = Len(columns)
            /\ \A j \in 1..Len(columns) :
                   startsWith(emitted[j], Quoted(columns[j].Field, targetType) \o Str(" "))

\* parseTable returned after a scan followed step by step
ScanDone == pc = "scanned" /\ caller = "parseTable"
\* the declarations of ScanDeclarations that are named keys, and the columns
\* each of them lists
NamedKeys == {8, 9, 10, 11}
ListedBy(k) == IF k \in {8} THEN {Str("a")}
               ELSE IF k \in {10} THEN {Str("b")}
               ELSE {Str("a"), Str("b")}

\* C22: after parseTable, every column that was parsed before a fragment
\* PRIMARY KEY <name> (<cols>) or UNIQUE KEY <name> (<cols>) and is listed in
\* its <cols> has Key true, whether <cols> lists one column or several.
C22_NamedKeyMarks ==
    ScanDone =>
        \A k \in NamedKeys :
            Declares(input.decls, k) =>
                \A name \in ListedBy(k) :
                    (\E j \in 1..Len(table.columns) : table.columns[j].Field = name)
                        => KeyOf(table.columns, name)

\* the columns with an inline PRIMARY KEY among the declarations of a
\* statement, in the order of the statement
InlineKeys(decls) ==
    LET inline == SelectSeq(decls, LAMBDA k : k \in {3, 4})
    IN  [j \in 1..Len(inline) |-> <<ScanDeclarations[inline[j]][1]>>]
\* every column marked so far is still there and marked after the step
KeysKept ==
    \A k \in 1..Len(scan.fieldList) :
        scan.fieldList[k].Key =>
            /\ k <= Len(scan'.fieldList)
            /\ scan'.fieldList[k].Field = scan.fieldList[k].Field
            /\ scan'.fieldList[k].Key

ColumnNamed(columns, name) ==
    columns[First(1, Len(columns), LAMBDA j : columns[j].Field = name)]

\* C24: the column declared n INT DEFAULT 0 COMMENT 'x' is returned with the
\* Default '0', the normalized bare token without any text of the COMMENT
\* clause, and with the Comment x; the column declared with the quoted default
\* 'no default comment' is returned with that literal whole as its Default.
C24_DefaultBeforeComment ==
    ScanDone =>
        /\ Declares(input.decls, 5) =>
               /\ ColumnNamed(table.columns, Str("n")).Default = Str("'0'")
               /\ ColumnNamed(table.columns, Str("n")).Comment = Str("x")
        /\ Declares(input.decls, 6) =>
               ColumnNamed(table.columns, Str("s")).Default = Str("'no default comment'")

\* the words of a token, which one or more blanks set apart, in capitals
WordsOf(token) ==
    SelectSeq(split(toUpperCase(token), Str(" ")), LAMBDA w : w # <<>>)
\* the classes of the classification: a decimal number with an optional sign,
\* fraction and exponent; the timestamp functions; the truth values; a date
\* between single quotes and a datetime with or without microseconds; a
\* literal between single quotes
ClaimedNumber(token) ==
    LET parts == split(toLowerCase(Unsigned(token)), Str("e"))
        digits(t) == t # <<>> /\ AllIn(t, DigitSet)
        fraction(t) == LET h == split(t, Str("."))
                       IN  Len(h) <= 2 /\ \A k \in 1..Len(h) : digits(h[k])
    IN  /\ Len(parts) \in {1, 2}
        /\ fraction(parts[1])
        /\ Len(parts) = 2 => digits(Unsigned(parts[2]))
ClaimedFunction(token) ==
    WordsOf(token) \in
        {<<Str("CURRENT_TIMESTAMP")>>, <<Str("NOW()")>>,
         <<Str("CURRENT_TIMESTAMP"), Str("ON"), Str("UPDATE"), Str("CURRENT_TIMESTAMP")>>,
         <<Str("CURRENT_TIMESTAMP"), Str("ON"), Str("INSERT"), Str("CURRENT_TIMESTAMP")>>}
ClaimedBoolean(token) == toUpperCase(token) \in {Str("TRUE"), Str("FALSE")}
ClaimedLiteral(token) ==
    Len(token) >= 1 /\ token[1] = "'" /\ token[Len(token)] = "'"
ClaimedDate(token) ==
    \/ ClaimedLiteral(token) /\ HasDate(slice1(token))
    \/ HasDateTime(token)

\* the classification, the first class that fits decides
ClaimedDefault(token) ==
    IF token = Null \/ token = <<>> THEN Null
    ELSE IF includes(toUpperCase(token), Str("NULL")) THEN Str("NULL")
    ELSE IF ClaimedNumber(token) THEN <<"'">> \o token \o <<"'">>
    ELSE IF ClaimedFunction(token) THEN toUpperCase(token)
    ELSE IF ClaimedBoolean(token) THEN toUpperCase(token)
    ELSE IF ClaimedDate(token)
         THEN IF ClaimedLiteral(token) THEN token ELSE <<"'">> \o token \o <<"'">>
    ELSE IF ClaimedLiteral(token) THEN <<"'">> \o slice1(token) \o <<"'">>
    ELSE token

\* fixDefaultValue returned
DefaultFixed == pc = "fixed" /\ caller = "fixDefaultValue"

SetMapped == pc = "mapped" /\ input.family = "set"

\* C26: a SET column maps as an ENUM column does: to NVARCHAR(n) for sqlite
\* and to CHARACTER VARYING(n) for pgsql and postgresql, n being the length of
\* its longest literal plus 2, and for mysql and mariadb to the list of its
\* literals as an enumerated type.
C26_SetLikeEnum ==
    SetMapped =>
        LET size == NumberToString(LongestLiteral(input.literals) + 2)
        IN  /\ targetType = "sqlite" => mappedType = Sized(Str("NVARCHAR"), size)
            /\ targetType \in PostgreSQLTargets =>
                   mappedType = Sized(Str("CHARACTER VARYING"), size)
            /\ targetType \in MySQLTargets =>
                   toLowerCase(mappedType) \in
                       {Sized(Str("enum"), EnumLength(input.literals)),
                        Sized(Str("set"), EnumLength(input.literals))}

\* the types of the parser's type list, in either letter case
Vocabulary ==
    {typeList[k] : k \in 1..Len(typeList)}
    \cup {toLowerCase(typeList[k]) : k \in 1..Len(typeList)}
\* the entries of a table whose key a type starts with
PrefixEntries(map, type) ==
    {k \in 1..Len(map) : startsWith(toLowerCase(type), toLowerCase(map[k][1]))}
\* the base type of the entry with the longest such key, TEXT when no key fits
LongestLookup(map, type) ==
    LET fits == PrefixEntries(map, type)
        longest == CHOOSE k \in fits : \A j \in fits : Len(map[j][1]) <= Len(map[k][1])
    IN  IF fits = {} THEN Str("TEXT") ELSE map[longest][2]
\* the table of a target
TableOfTarget(d) ==
    IF d = "sqlite" THEN dbToSqlite
    ELSE IF d \in MySQLTargets THEN dbToMySQL
    ELSE dbToPostgreSQL
\* a mapper returned, called on a column of the type list that is no
\* enumeration and carries no length
PlainMapped ==
    /\ pc = "mapped"
    /\ input.family = "column"
    /\ input.type \in Vocabulary
    /\ ~IsEnumType(input.type)
    /\ input.length = <<>>

\* C27: for every type of the parser's type list and each of the three
\* tables, the first entry whose key the type starts with gives the base type
\* that the entry with the longest such key gives, and that is the base type
\* the mapper returns.
C27_NoEntryShadowed ==
    PlainMapped =>
        LET map == TableOfTarget(targetType)
        IN  /\ LookupType(map, input.type) = LongestLookup(map, input.type)
            /\ mappedType =
                   IF targetType \in MySQLTargets
                   THEN replaceAll(LongestLookup(map, input.type),
                                   Str("timestamptz"), Str("TIMESTAMP"))
                   ELSE LongestLookup(map, input.type)

\* C27 happens: DATETIME was mapped for mysql, whose table has the keys
\* DATETIME and DATE, both of which DATETIME starts with
C27_Witness ==
    /\ PlainMapped
    /\ input.type = Str("DATETIME")
    /\ targetType = "mysql"
    /\ Cardinality(PrefixEntries(dbToMySQL, input.type)) = 2
    /\ mappedType = Str("DATETIME")

\* a mapper returned, called on a column of type INT or INTEGER without length
IntegerMapped ==
    /\ pc = "mapped"
    /\ input.family = "column"
    /\ toUpperCase(input.type) \in {Str("INT"), Str("INTEGER")}
    /\ input.length = <<>>

\* C28: a column of type INT or INTEGER without a length maps to INTEGER for
\* sqlite, pgsql and postgresql and to INT for mysql and mariadb, never to the
\* default TEXT.
C28_IntegerMapped ==
    IntegerMapped =>
        mappedType = IF targetType \in MySQLTargets THEN Str("INT") ELSE Str("INTEGER")

\* the sample scripts with a column p whose type qualifier holds a comma,
\* declared between the columns a and b
CommaSamples == {6, 7, 8}
\* a line without the quote characters of the targets
Unquoted(line) == SelectSeq(line, LAMBDA c : c \notin {BT, "\""})
\* the emitted column lines are those of the columns of the names, in order
LinesOfColumns(emitted, names) ==
    /\ Len(emitted) = Len(names)
    /\ \A j \in 1..Len(names) : startsWith(Unquoted(emitted[j]), names[j] \o Str(" "))

\* C29: translate of a table that declares a column of type DECIMAL(10,2),
\* NUMERIC(10,2) or ENUM('a','bb','ccc') between two other columns emits one
\* column line for each of the three columns, in the order of the
\* declarations.
C29_CommaQualifierKept ==
    \A k \in CommaSamples :
        SampleDone(k) =>
            LinesOfColumns(ColumnLines(resultTable), <<Str("a"), Str("p"), Str("b")>>)

\* the sample scripts with a column v of type VARCHAR(20) or NVARCHAR(30),
\* where v stands among the columns, and the length it is declared with
LengthSamples == {9, 10, 11, 12}
LengthColumn(k) == IF k \in {10} THEN 2 ELSE 1
LengthOf(k) == IF k \in {9, 10} THEN Str("20") ELSE Str("30")
\* the type with a length that VARCHAR and NVARCHAR map to
LengthType(d) ==
    IF d = "sqlite" THEN Str("NVARCHAR")
    ELSE IF d \in MySQLTargets THEN Str("VARCHAR")
    ELSE Str("CHARACTER VARYING")

\* C30: a column declared VARCHAR(n) or NVARCHAR(n) is emitted with the type
\* of the target followed by (n), whether it is the first column, the last
\* one before the closing parenthesis of the table, or has DEFAULT now()
\* behind its type.
C30_LengthKept ==
    \A k \in LengthSamples :
        SampleDone(k) =>
            /\ Len(ColumnLines(resultTable)) = 2
            /\ startsWith(Unquoted(ColumnLines(resultTable)[LengthColumn(k)]),
                          Str("v ") \o Sized(LengthType(targetType), LengthOf(k)) \o Str(" "))

====
